---------------------------- MODULE Spec2Model ----------------------------
(***************************************************************************)
(* A model of parts of KOSMIndoorMap / KOSMIndoorRouting:                  *)
(*   - HitDetector::itemAt and MapItem::elementAt      (SpecHit)           *)
(*   - OSM::Element::outerPath / recomputeBoundingBox  (SpecPath)          *)
(*   - NavMeshBuilder::start and its worker task       (SpecNav)           *)
(* Each part has its own initial predicate and next-state relation; the    *)
(* variables of the other parts stay at their idle values.                 *)
(***************************************************************************)
EXTENDS Integers, Sequences, FiniteSets, TLC

VARIABLES
    \* ---- scene graph and hit detection (MapItem::m_sg, HitDetector) ----
    sgItems,      \* SceneGraph::items(): sequence of indices into ItemCatalogue
    viewPan,      \* View: horizontal offset of the viewport in scene units
    hitPc,        \* "idle" | "done": has elementAt run on the current scene
    hitPos,       \* screen position of the last elementAt call
    hitResult,    \* item returned by HitDetector::itemAt (0 = nullptr)
    hitElement,   \* element returned by MapItem::elementAt (0 = null element)
    hitPrev       \* the call before the last one: [pos, res], on the same scene

hitVars == <<sgItems, viewPan, hitPc, hitPos, hitResult, hitElement, hitPrev>>

VARIABLES
    \* ---- OSM data set and Element::outerPath / recomputeBoundingBox ----
    dsNodes,      \* ids of the nodes held by DataSet::nodes
    relMembers,   \* Relation::members: sequence of indices into MemberCatalogue
    relType,      \* value of the relation's "type" tag
    opElem,       \* the element operated on: [type, id]
    opPc,         \* position inside Element::outerPath
    opWays,       \* outerPath: the collected ways not used yet
    opNodes,      \* outerPath: the node sequence built so far
    opStart,      \* outerPath: startNode of the current sub-loop
    opLast,       \* outerPath: lastNode of the current sub-loop
    bboxDone,     \* has recomputeBoundingBox run on the element
    bboxValue     \* the element's cached bounding box

pathVars == <<dsNodes, relMembers, relType, opElem, opPc, opWays, opNodes,
              opStart, opLast, bboxDone, bboxValue>>

VARIABLES
    \* ---- NavMeshBuilder (main thread), its worker tasks, the event queue ----
    m_data,            \* NavMeshBuilderPrivate::m_data: "empty" | "loaded"
    m_equipmentModel,  \* [isNull, hidden]: the overlay and the elements it hides
    debugFiles,        \* m_gsetFileName is set (writeDebugNavMesh was called)
    mainPc,            \* what the main thread is executing
    cursor,            \* start(): position in the (level, element) iteration
    startCount,        \* number of start() calls made so far
    runBase,           \* offMeshCount() when the current start() was called
    halfDone,          \* per start() call: main-thread phases completed
    m_nodeLevelMap,    \* node id -> level, AmbiguousLevel on a conflict
    numVerts,          \* m_verts.size() / 3
    numTris,           \* m_tris.size() / 3 = m_triAreaIds.size()
    m_vertexOffset,    \* NavMeshBuilderPrivate::m_vertexOffset
    m_offMeshCon,      \* off-mesh connections, one record per connection
    tasks,             \* per start() call: the lambda handed to the thread pool
    m_navMesh,         \* NavMeshBuilderPrivate::m_navMesh
    navRead,           \* [read, mesh]: what navMesh() returned since the last event
    callLog            \* the processElement calls of the current start(), in order

navVars == <<m_data, m_equipmentModel, debugFiles, mainPc, cursor, startCount,
             runBase, halfDone, m_nodeLevelMap, numVerts, numTris, m_vertexOffset,
             m_offMeshCon, tasks, m_navMesh, navRead, callLog>>

VARIABLES
    \* ---- one NavMeshBuilderPrivate::processElement call ----
    peElem,       \* the element: index into NavElementCatalogue
    peFloor,      \* the floorLevel argument
    peMap,        \* m_nodeLevelMap at the time of the call
    peBase,       \* the buffers before the call
    peBuf,        \* the buffers after the call
    pePc          \* "idle" | "ready" | "done" | "crashed"

elemVars == <<peElem, peFloor, peMap, peBase, peBuf, pePc>>

VARIABLES
    \* ---- NavMeshBuilderPrivate::indexNodeLevels, one element at a time ----
    ixMap,        \* m_nodeLevelMap
    ixLeft,       \* the level map entries the loops have not visited yet
    ixRead        \* the last levelForNode call: [node, recorded, level]

ixVars == <<ixMap, ixLeft, ixRead>>

VARIABLES
    \* ---- FloorLevelChangeModel and the FloorLevelModel objects around it ----
    m_element,           \* index into FlcElementCatalogue, NullElement if null
    m_levels,            \* the MapLevels held, by numeric level
    m_currentFloorLevel, \* FloorLevelChangeModel::m_currentFloorLevel
    m_floorLevelModel,   \* the attached FloorLevelModel object, 0 if none
    flmLevels            \* per FloorLevelModel object: the levels it has rows for

flcVars == <<m_element, m_levels, m_currentFloorLevel, m_floorLevelModel, flmLevels>>

VARIABLES
    \* ---- MapItem, its loader and its scene controller ----
    miData,            \* MapItem::m_data: [id, empty]
    miStyleSheetName,  \* MapItem::m_styleSheetName
    miStyle,           \* MapItem::m_style: [sheet, error, compiledFor]
    miError,           \* MapItem::m_errorMessage is not empty
    miSgEmpty,         \* m_sg.items().empty()
    miLoading,         \* MapLoader::isLoading()
    miNextId,          \* the number of data sets created so far
    ctlData,           \* the MapData the scene controller holds: [id, empty]
    ctlStyleSet,       \* the controller's style pointer is &m_style (else null)
    miPaint            \* the last paint(): what updateScene found

miVars == <<miData, miStyleSheetName, miStyle, miError, miSgEmpty, miLoading,
            miNextId, ctlData, ctlStyleSet, miPaint>>

VARIABLES
    \* ---- PainterRenderer::render ----
    rSg,       \* the scene graph: items in scene-graph order
    rPc,       \* "idle" | "select" | "phase" | "items" | "end"
    rRange,    \* position in sg.layerOffsets()
    rPhase,    \* position in the phase list
    rBatch,    \* m_renderBatch: positions of the selected items in rSg
    rPos,      \* position in m_renderBatch
    rLog,      \* the draw calls of the current render(), in order
    rCache,    \* per item of rSg: LabelItem::hasFineBbox and LabelItem::bbox
    rView,     \* m_view
    rPainter,  \* m_painter
    rDepth     \* saved states on the painter's stack since construction

renderVars == <<rSg, rPc, rRange, rPhase, rBatch, rPos, rLog, rCache, rView, rPainter, rDepth>>

VARIABLES
    \* ---- MapCSSCondition::matches ----
    cdElem,    \* state.element
    cdCond,    \* the condition: op, m_key, m_value
    cdResult   \* what matches() returned, once it was called

condVars == <<cdElem, cdCond, cdResult>>

VARIABLES
    \* ---- the builder's arrays, entry by entry ----
    aVerts,       \* m_verts: three floats per vertex
    aTris,        \* m_tris: three indices per face
    aTriAreaIds,  \* m_triAreaIds
    aOffMeshCon   \* m_offMeshCon: verts, rads, flags, areas, dir, userId

arrayVars == <<aVerts, aTris, aTriAreaIds, aOffMeshCon>>

VARIABLES
    \* ---- OSM::intersects ----
    isA,       \* bbox1
    isB,       \* bbox2
    isResult   \* [called, ab, ba]: intersects(a, b) and intersects(b, a)

isectVars == <<isA, isB, isResult>>

VARIABLES
    \* ---- Element::recomputeBoundingBox ----
    rbData,     \* index of the data set the call runs on
    rbRoot,     \* the element recomputeBoundingBox was called on
    rbStack,    \* the open calls on relations: [rel, next member], innermost last
    rbRelBox,   \* Relation::bbox by relation id
    rbWayBox,   \* Way::bbox by way id
    rbPc        \* "idle", "running", "done" or "overflow"

bboxVars == <<rbData, rbRoot, rbStack, rbRelBox, rbWayBox, rbPc>>

vars == <<hitVars, pathVars, navVars, elemVars, ixVars, flcVars, miVars, renderVars, condVars, arrayVars, isectVars, bboxVars>>

\* what the actions of one part leave alone
exceptHit == <<pathVars, navVars, elemVars, ixVars, flcVars, miVars, renderVars, condVars, arrayVars, isectVars, bboxVars>>

exceptPath == <<hitVars, navVars, elemVars, ixVars, flcVars, miVars, renderVars, condVars, arrayVars, isectVars, bboxVars>>

exceptNav == <<hitVars, pathVars, elemVars, ixVars, flcVars, miVars, renderVars, condVars, arrayVars, isectVars, bboxVars>>

exceptElem == <<hitVars, pathVars, navVars, ixVars, flcVars, miVars, renderVars, condVars, arrayVars, isectVars, bboxVars>>

exceptIndex == <<hitVars, pathVars, navVars, elemVars, flcVars, miVars, renderVars, condVars, arrayVars, isectVars, bboxVars>>

exceptFlc == <<hitVars, pathVars, navVars, elemVars, ixVars, miVars, renderVars, condVars, arrayVars, isectVars, bboxVars>>

exceptMapItem == <<hitVars, pathVars, navVars, elemVars, ixVars, flcVars, renderVars, condVars, arrayVars, isectVars, bboxVars>>

exceptRender == <<hitVars, pathVars, navVars, elemVars, ixVars, flcVars, miVars, condVars, arrayVars, isectVars, bboxVars>>

exceptCond == <<hitVars, pathVars, navVars, elemVars, ixVars, flcVars, miVars, renderVars, arrayVars, isectVars, bboxVars>>

exceptArrays == <<hitVars, pathVars, navVars, elemVars, ixVars, flcVars, miVars, renderVars, condVars, isectVars, bboxVars>>

exceptIsect == <<hitVars, pathVars, navVars, elemVars, ixVars, flcVars, miVars, renderVars, condVars, arrayVars, bboxVars>>

exceptBbox == <<hitVars, pathVars, navVars, elemVars, ixVars, flcVars, miVars, renderVars, condVars, arrayVars, isectVars>>

(***************************************************************************)
(*                      Generic helpers                                    *)
(***************************************************************************)
Range(s) == {s[i] : i \in DOMAIN s}

Min(S) == CHOOSE m \in S : \A x \in S : m <= x

\* all orderings of the elements of the sequence s
Perms(s) ==
    {p \in [1..Len(s) -> Range(s)] :
        \A i \in 1..Len(s) : \E j \in 1..Len(s) : p[j] = s[i]}

(***************************************************************************)
(*                      Scene graph items                                  *)
(***************************************************************************)
NullItem == 0
NullElement == 0

\* Largest number of items in the scene graph.
MaxItems == 3

\* Scene-graph item payloads the scene holds.  Coordinates are scene units on
\* a small grid; alpha is the fill alpha in tenths (3 = 0.3, 9 = 0.9).
\*   elem     OSM element the item was created for
\*   payload  dynamic type of SceneGraphItem::payload
\*   noPhase  renderPhases() == NoPhase
\*   bbox     payload->boundingRect() as <<x, y, width, height>>
\*   shape    scene points for which the payload's geometry test of Qt answers
\*            true (QPolygonF::containsPoint, QPainterPath::contains, distance to
\*            the line <= line width, label hit box)
\*   pathSize number of points of a polyline path
ItemCatalogue == <<
    [elem |-> 11, payload |-> "Polygon", alpha |-> 3, noPhase |-> FALSE,
     bbox |-> <<0, 0, 3, 2>>, pathSize |-> 0,
     shape |-> {<<x, y>> : x \in 0..3, y \in 0..2}],
    [elem |-> 12, payload |-> "Polygon", alpha |-> 3, noPhase |-> FALSE,
     bbox |-> <<1, 0, 1, 1>>, pathSize |-> 0,
     shape |-> {<<x, y>> : x \in 1..2, y \in 0..1}],
    [elem |-> 13, payload |-> "MultiPolygon", alpha |-> 3, noPhase |-> FALSE,
     bbox |-> <<1, 0, 1, 1>>, pathSize |-> 0,
     shape |-> {<<x, y>> : x \in 1..2, y \in 0..1}],
    [elem |-> 14, payload |-> "Polygon", alpha |-> 9, noPhase |-> FALSE,
     bbox |-> <<0, 0, 2, 2>>, pathSize |-> 0,
     shape |-> {<<x, y>> : x \in 0..2, y \in 0..2} \ {<<0, 2>>}],
    [elem |-> 15, payload |-> "MultiPolygon", alpha |-> 9, noPhase |-> FALSE,
     bbox |-> <<1, 0, 2, 2>>, pathSize |-> 0,
     shape |-> {<<x, y>> : x \in 1..3, y \in 0..2}],
    [elem |-> 16, payload |-> "Polyline", alpha |-> 0, noPhase |-> FALSE,
     bbox |-> <<0, 0, 3, 0>>, pathSize |-> 2,
     shape |-> {<<x, 0>> : x \in 0..3}],
    [elem |-> 17, payload |-> "Polyline", alpha |-> 0, noPhase |-> FALSE,
     bbox |-> <<1, 0, 0, 0>>, pathSize |-> 1,
     shape |-> {<<1, 0>>}],
    [elem |-> 18, payload |-> "Polygon", alpha |-> 9, noPhase |-> TRUE,
     bbox |-> <<0, 0, 3, 2>>, pathSize |-> 0,
     shape |-> {<<x, y>> : x \in 0..3, y \in 0..2}],
    [elem |-> 19, payload |-> "Label", alpha |-> 0, noPhase |-> FALSE,
     bbox |-> <<2, 1, 1, 1>>, pathSize |-> 0,
     shape |-> {<<x, y>> : x \in 2..3, y \in 1..2}]
>>

ItemIds == DOMAIN ItemCatalogue

\* Screen positions a hit test is made at.
ScreenPositions == {<<0, 0>>, <<1, 0>>, <<1, 1>>, <<2, 2>>, <<4, 1>>}

\* Viewport offsets of the view.
ViewPans == {0, 1}

\* View::mapScreenToScene: the viewport is panned by viewPan scene units
mapScreenToScene(pos, pan) == <<pos[1] + pan, pos[2]>>

\* QRectF::contains(QPointF): edges included
rectContains(bbox, p) ==
    /\ bbox[1] <= p[1] /\ p[1] <= bbox[1] + bbox[3]
    /\ bbox[2] <= p[2] /\ p[2] <= bbox[2] + bbox[4]

\* width() * height() of the bounding rect, the sort key of itemAt
bboxArea(item) == ItemCatalogue[item].bbox[3] * ItemCatalogue[item].bbox[4]

\* HitDetector::itemContainsPoint, dispatching on the payload type
itemContainsPoint(item, pos, pan) ==
    LET it == ItemCatalogue[item]
        scenePos == mapScreenToScene(pos, pan)
    IN  CASE it.payload = "Polygon" -> scenePos \in it.shape
          [] it.payload = "MultiPolygon" -> scenePos \in it.shape
          [] it.payload = "Polyline" ->
                IF it.pathSize < 2 THEN FALSE ELSE scenePos \in it.shape
          [] it.payload = "Label" -> scenePos \in it.shape
          [] OTHER -> TRUE

\* itemsAtAccepts without the geometry test: the bounding box alone decides
itemsAtAccepts_BboxOnly(item, pos, pan) ==
    /\ ~ItemCatalogue[item].noPhase
    /\ rectContains(ItemCatalogue[item].bbox, mapScreenToScene(pos, pan))

\* the filter of HitDetector::itemsAt for one item
itemsAtAccepts(item, pos, pan) ==
    /\ ~ItemCatalogue[item].noPhase
    /\ rectContains(ItemCatalogue[item].bbox, mapScreenToScene(pos, pan))
    /\ itemContainsPoint(item, pos, pan)

\* HitDetector::itemsAt: the accepted items, in scene-graph order
itemsAt(pos, sg, pan) ==
    SelectSeq(sg, LAMBDA item : itemsAtAccepts(item, pos, pan))

\* HitDetector::itemFillAlpha, in tenths: 1.0 for everything but (multi)polygons
itemFillAlpha(item) ==
    IF ItemCatalogue[item].payload \in {"Polygon", "MultiPolygon"}
    THEN ItemCatalogue[item].alpha
    ELSE 10

\* std::sort with the bbox-area comparator: every arrangement in which no
\* element is followed by one of strictly smaller area.  The relative order
\* of elements of equal area is unspecified.
sortByArea(items) ==
    {p \in Perms(items) :
        \A i, j \in 1..Len(items) : i < j => ~(bboxArea(p[j]) < bboxArea(p[i]))}

\* the transparency threshold 0.5f of itemAt, in tenths
AlphaThreshold == 5

\* itemAt preferring any opaque candidate, not only the topmost one
itemAt_AnyOpaque(pos, sg, pan) ==
    LET items == itemsAt(pos, sg, pan)
        opaque == SelectSeq(items, LAMBDA c : itemFillAlpha(c) >= AlphaThreshold)
    IN  IF Len(items) = 0 THEN {NullItem}
        ELSE IF Len(items) = 1 THEN {items[1]}
        ELSE IF Len(opaque) > 0 THEN {opaque[Len(opaque)]}
        ELSE {p[1] : p \in sortByArea(items)}

\* HitDetector::itemAt: the set of items the call can return
itemAt(pos, sg, pan) ==
    LET items == itemsAt(pos, sg, pan)
    IN  IF Len(items) = 0 THEN {NullItem}
        ELSE IF Len(items) = 1 THEN {items[1]}
        ELSE LET top == items[Len(items)]
             IN  IF itemFillAlpha(top) >= AlphaThreshold
                 THEN {top}
                 ELSE {p[1] : p \in sortByArea(items)}

\* no hit test has run on the current scene
HitIdle ==
    /\ hitPc = "idle" /\ hitPos = <<0, 0>> /\ hitResult = NullItem
    /\ hitElement = NullElement /\ hitPrev = <<>>

HitReset ==
    /\ hitPc' = "idle" /\ hitPos' = <<0, 0>> /\ hitResult' = NullItem
    /\ hitElement' = NullElement /\ hitPrev' = <<>>

(***************************************************************************)
(*                      OSM data set                                       *)
(***************************************************************************)
\* OSM::Id{}: the value appendNextPath returns when no way continues the path
NoId == 0

\* std::numeric_limits<int32_t>::max(): the invalid coordinate value
Int32Max == 2147483647

\* Largest number of members of the relation.
MaxMembers == 3

NodeIds == 1..6

\* Coordinate of each node, <<latitude, longitude>>
NodeCoord == <<
    <<10, 40>>, <<20, 10>>, <<30, 30>>, <<5, 20>>, <<40, 5>>, <<25, 50>> >>

\* Way::nodes of the ways held by DataSet::ways, by way id
WayCatalogue == <<
    <<1, 2, 3, 1>>,     \* 1: closed ring A
    <<4, 5, 6, 4>>,     \* 2: closed ring B
    <<1, 2>>,           \* 3: segment 1 -> 2
    <<2, 3>>,           \* 4: segment 2 -> 3
    <<3, 1>>,           \* 5: segment 3 -> 1
    <<3, 2>>,           \* 6: segment 2 -> 3, drawn backwards
    <<1, 4, 2>>,        \* 7: segment 1 -> 2 through node 4
    <<>>                \* 8: a way without nodes
>>

WayIds == DOMAIN WayCatalogue

\* a way id no way of the data set has
MissingWayId == 9

\* Members a relation is built from: the referenced way and the role
MemberCatalogue == <<
    [id |-> 1, role |-> "outer"],
    [id |-> 2, role |-> "outer"],
    [id |-> 3, role |-> "outer"],
    [id |-> 4, role |-> "outer"],
    [id |-> 5, role |-> "outer"],
    [id |-> 6, role |-> "outer"],
    [id |-> 7, role |-> "outer"],
    [id |-> 8, role |-> "outer"],
    [id |-> 9, role |-> "outer"],
    [id |-> 2, role |-> "inner"]
>>

\* The node sets of the data sets considered: complete, or with one node of
\* the ways missing.
NodeSets == {NodeIds, NodeIds \ {2}, NodeIds \ {1}, NodeIds \ {1, 4}}

\* member lists without repetition, of at most n members
MemberLists(n) ==
    UNION {{m \in [1..k -> DOMAIN MemberCatalogue] :
                \A i, j \in 1..k : i # j => m[i] # m[j]} : k \in 0..n}

Reverse(s) == [i \in 1..Len(s) |-> s[Len(s) + 1 - i]]

\* without the i-th element (std::vector::erase)
Erase(s, i) == SubSeq(s, 1, i - 1) \o SubSeq(s, i + 1, Len(s))

\* appendNodesFromWay: the nodes of ids that the data set resolves, in order
appendNodesFromWay(nodes, ids) ==
    nodes \o SelectSeq(ids, LAMBDA n : n \in dsNodes)

\* appendNextPath appending a way matched at its last node without reversing it
appendNextPath_NoReverse(nodes, startNode, ways) ==
    LET matches == {i \in 2..Len(ways) :
                        \/ WayCatalogue[ways[i]][1] = startNode
                        \/ WayCatalogue[ways[i]][Len(WayCatalogue[ways[i]])] = startNode}
    IN  IF ways = <<>> \/ matches = {}
        THEN [nodes |-> nodes, ways |-> ways, last |-> NoId]
        ELSE LET i == Min(matches)
                 w == WayCatalogue[ways[i]]
             IN  IF w[1] = startNode
                 THEN [nodes |-> appendNodesFromWay(nodes, w),
                       ways |-> Erase(ways, i), last |-> w[Len(w)]]
                 ELSE [nodes |-> appendNodesFromWay(nodes, w),
                       ways |-> Erase(ways, i), last |-> w[1]]

\* appendNextPath: looks, from the second collected way on, for the first way
\* that starts or ends at startNode, appends it (reversed when it ends there),
\* erases it from the collected ways and returns its other end
appendNextPath(nodes, startNode, ways) ==
    LET matches == {i \in 2..Len(ways) :
                        \/ WayCatalogue[ways[i]][1] = startNode
                        \/ WayCatalogue[ways[i]][Len(WayCatalogue[ways[i]])] = startNode}
    IN  IF ways = <<>> \/ matches = {}
        THEN [nodes |-> nodes, ways |-> ways, last |-> NoId]
        ELSE LET i == Min(matches)
                 w == WayCatalogue[ways[i]]
             IN  IF w[1] = startNode
                 THEN [nodes |-> appendNodesFromWay(nodes, w),
                       ways |-> Erase(ways, i), last |-> w[Len(w)]]
                 ELSE [nodes |-> appendNodesFromWay(nodes, Reverse(w)),
                       ways |-> Erase(ways, i), last |-> w[1]]

\* outerPath, "collect the relevant ways": the outer members that are
\* non-empty ways of the data set, in member order
collectWays(members) ==
    LET keep(m) == /\ MemberCatalogue[m].role = "outer"
                   /\ MemberCatalogue[m].id \in WayIds
                   /\ WayCatalogue[MemberCatalogue[m].id] # <<>>
        kept == SelectSeq(members, keep)
    IN  [i \in 1..Len(kept) |-> MemberCatalogue[kept[i]].id]

\* OSM::Coordinate / OSM::BoundingBox
InvalidBbox == [min |-> <<Int32Max, Int32Max>>, max |-> <<Int32Max, Int32Max>>]

coordIsValid(c) == c[1] # Int32Max /\ c[2] # Int32Max

bboxIsValid(b) == coordIsValid(b.min) /\ coordIsValid(b.max)

MinOf(a, b) == IF a < b THEN a ELSE b
MaxOf(a, b) == IF a > b THEN a ELSE b

\* OSM::unite
unite(bbox1, bbox2) ==
    IF ~bboxIsValid(bbox1) THEN bbox2
    ELSE IF ~bboxIsValid(bbox2) THEN bbox1
    ELSE [min |-> <<MinOf(bbox1.min[1], bbox2.min[1]), MinOf(bbox1.min[2], bbox2.min[2])>>,
          max |-> <<MaxOf(bbox1.max[1], bbox2.max[1]), MaxOf(bbox1.max[2], bbox2.max[2])>>]

\* the accumulation step of recomputeBoundingBox for a way that unites the
\* box with a node whether or not the data set resolves it
accumulateNode_Unchecked(bbox, nodeId) ==
    unite(bbox, [min |-> NodeCoord[nodeId], max |-> NodeCoord[nodeId]])

\* the accumulation step of recomputeBoundingBox for a way
accumulateNode(bbox, nodeId) ==
    IF nodeId \notin dsNodes
    THEN bbox
    ELSE unite(bbox, [min |-> NodeCoord[nodeId], max |-> NodeCoord[nodeId]])

\* std::accumulate over the node ids of a way
RECURSIVE accumulateBbox(_, _)
accumulateBbox(bbox, ids) ==
    IF ids = <<>> THEN bbox
    ELSE accumulateBbox(accumulateNode(bbox, Head(ids)), Tail(ids))

(***************************************************************************)
(*                      Navigation mesh builder: data                      *)
(***************************************************************************)
MaxStarts == 2                  \* number of NavMeshBuilder::start() calls explored
AmbiguousLevel == -2147483647 - 1   \* std::numeric_limits<int>::min()
NullNavMesh == 0                \* a default-constructed NavMesh

\* A MapCSS result layer of the navmesh filter style, as far as processElement,
\* processGeometry and processLink look at it.
Layer(sel, area, fill, line, width, extrude) ==
    [selector |-> sel, area |-> area, fillOpacity |-> fill,
     line |-> line, width |-> width, extrude |-> extrude]

LinkArea == Layer("link", TRUE, 0, FALSE, 0, 0)

\* An element as the builder reads it.
\*   levels   : what LevelParser::parse yields for the "level" tag
\*   nodes    : Way::nodes, the node ids the way refers to
\*   layers   : the result layers the filter style evaluates to
\*   triVerts : triSet.vertices.size() / 2 of the triangulated area
\*   triFaces : the index triples of triSet.indices
\*   stroke   : the vertices the stroker emits; each entry tells which of the
\*              first two polygon points the vertex is nearer to (1 or 2)
\*   outer    : node ids of Element::outerPath, i.e. the nodes found in the data
\*              set; createPolygon yields one point per entry
\*   doors    : nodes carrying a non-empty "door" tag
Elem(type, levels, nodes, layers, triVerts, triFaces, stroke, outer, doors) ==
    [type |-> type, levels |-> levels, nodes |-> nodes, layers |-> layers,
     triVerts |-> triVerts, triFaces |-> triFaces, stroke |-> stroke,
     outer |-> outer, doors |-> doors]

GeoArea == Layer("", TRUE, 1, FALSE, 0, 0)

GeoLine == Layer("", FALSE, 0, TRUE, 1, 0)

GeoWall == Layer("", FALSE, 0, FALSE, 0, 1)

LinkLine(sel) == Layer(sel, FALSE, 0, TRUE, 1, 0)

TwoPointStroke == <<1, 1, 2, 2>>

NavElementCatalogue == <<
    \* ---- the elements of the loaded map and of the equipment overlay ----
    \* 1: elevator shaft spanning two levels
    Elem("Way", <<0, 10>>, <<5, 6, 7, 5>>, <<LinkArea>>,
         0, <<>>, <<>>, <<5, 6, 7, 5>>, {}),
    \* 2: elevator shaft spanning three levels
    Elem("Relation", <<0, 10, 20>>, <<>>, <<LinkArea>>,
         0, <<>>, <<>>, <<5, 6, 7, 5>>, {}),
    \* 3: elevator shaft tagged with a single level
    Elem("Way", <<10>>, <<2, 3, 8, 2>>, <<LinkArea>>,
         0, <<>>, <<>>, <<2, 3, 8, 2>>, {}),
    \* 4: room on the ground floor: walkable area and extruded walls, one door
    Elem("Way", <<0>>, <<1, 9, 10, 1>>, <<Layer("", TRUE, 1, FALSE, 0, 1)>>,
         3, << <<0, 1, 2>> >>, <<>>, <<1, 9, 10, 1>>, {9}),
    \* 5: escalator from node 1 (ground floor) to node 2 (first floor)
    Elem("Way", <<0, 10>>, <<1, 2>>, <<GeoLine, LinkLine("link_forward")>>,
         0, <<>>, TwoPointStroke, <<1, 2>>, {}),
    \* 6: corridor on a mezzanine level
    Elem("Way", <<5>>, <<3, 4>>, <<Layer("", FALSE, 0, TRUE, 2, 0)>>,
         0, <<>>, TwoPointStroke, <<3, 4>>, {}),
    \* 7: elevator provided by the equipment overlay
    Elem("Way", <<0, 10>>, <<5, 6, 7, 5>>, <<LinkArea>>,
         0, <<>>, <<>>, <<5, 6, 7, 5>>, {}),
    \* ---- further elements, processed one at a time ----
    \* 8: stairs, backward link
    Elem("Way", <<0, 10>>, <<1, 2>>, <<LinkLine("link_backward")>>,
         0, <<>>, TwoPointStroke, <<1, 2>>, {}),
    \* 9: stairs, link usable in both directions
    Elem("Way", <<0, 10>>, <<1, 2>>, <<LinkLine("link")>>,
         0, <<>>, TwoPointStroke, <<1, 2>>, {}),
    \* 10: ramp of three nodes, stroked and linked
    Elem("Way", <<0, 10>>, <<1, 3, 2>>, <<GeoLine, LinkLine("link_forward")>>,
         0, <<>>, <<1, 1, 2, 2, 2, 2>>, <<1, 3, 2>>, {}),
    \* 11: stairs whose second node is not in the data set
    Elem("Way", <<0, 10>>, <<1, 2>>, <<GeoLine, LinkLine("link_forward")>>,
         0, <<>>, <<>>, <<1>>, {}),
    \* 12: ramp of three nodes whose first node is not in the data set
    Elem("Way", <<0, 10>>, <<2, 1, 4>>, <<GeoLine>>,
         0, <<>>, TwoPointStroke, <<1, 4>>, {}),
    \* 13: wall with doors at two of its five corners
    Elem("Way", <<0>>, <<1, 9, 10, 3, 4, 1>>, <<GeoWall>>,
         0, <<>>, <<>>, <<1, 9, 10, 3, 4, 1>>, {9, 4}),
    \* 14: wall without doors, also filled and stroked
    Elem("Way", <<10>>, <<1, 10, 3, 1>>, <<Layer("", TRUE, 1, TRUE, 1, 1)>>,
         3, << <<0, 1, 2>> >>, <<1, 1, 2, 2, 2, 2, 1, 1>>, <<1, 10, 3, 1>>, {}),
    \* 15: multipolygon wall none of whose outer ways is in the data set
    Elem("Relation", <<0>>, <<>>, <<GeoWall>>,
         0, <<>>, <<>>, <<>>, {}),
    \* 16: a node matched by a line link rule and a line rule
    Elem("Node", <<0>>, <<>>, <<GeoLine, LinkLine("link")>>,
         0, <<>>, <<>>, <<6>>, {}),
    \* 17: area with a transparent fill and a zero-width line
    Elem("Way", <<0>>, <<1, 9, 10, 1>>, <<Layer("", TRUE, 0, TRUE, 0, 0)>>,
         3, << <<0, 1, 2>> >>, TwoPointStroke, <<1, 9, 10, 1>>, {}),
    \* ---- ways no style rule matches, met by indexNodeLevels only ----
    \* 18: way on the second floor
    Elem("Way", <<20>>, <<8, 9>>, <<>>, 0, <<>>, <<>>, <<8, 9>>, {}),
    \* 19: way on the first floor
    Elem("Way", <<10>>, <<9, 1>>, <<>>, 0, <<>>, <<>>, <<9, 1>>, {}),
    \* 20: another way on the second floor
    Elem("Way", <<20>>, <<8>>, <<>>, 0, <<>>, <<>>, <<8>>, {})
>>

MapElements == 1..7

\* MapData::levelMap(): the levels in iteration order, and per level the
\* elements listed under it.  An element is listed under each of its levels.
LevelOrder == <<20, 10, 5, 0>>

levelMap(level) ==
    CASE level = 20 -> <<2>>
      [] level = 10 -> <<1, 2, 3, 5>>
      [] level = 5  -> <<6>>
      [] level = 0  -> <<1, 2, 4, 5>>

\* AbstractOverlaySource::forEach(level, ...): the overlay's elements per floor.
equipmentForEach(level) ==
    IF level \in {0, 10} THEN <<7>> ELSE <<>>

\* AbstractOverlaySource::hiddenElements: what an equipment model may hide.
HiddenSets == {{}, {1}}

\* The calls start() makes, in order: the elements of each level, followed by
\* the overlay's elements when the level is a full floor (level % 10 == 0).
RECURSIVE StartCalls(_)
StartCalls(i) ==
    IF i > Len(LevelOrder) THEN <<>>
    ELSE LET level == LevelOrder[i]
             own == [j \in 1..Len(levelMap(level)) |->
                        [elem |-> levelMap(level)[j], floor |-> level, overlay |-> FALSE]]
             eq  == IF level % 10 # 0 THEN <<>>
                    ELSE [j \in 1..Len(equipmentForEach(level)) |->
                            [elem |-> equipmentForEach(level)[j], floor |-> level,
                             overlay |-> TRUE]]
         IN  own \o eq \o StartCalls(i + 1)

Worklist == StartCalls(1)

\* ---- node level index ----
levelForNode(map, nodeId) ==
    IF nodeId \in DOMAIN map THEN map[nodeId] ELSE 0

addNodeToLevelIndex(map, nodeId, level) ==
    IF nodeId \notin DOMAIN map
    THEN [n \in DOMAIN map \cup {nodeId} |-> IF n = nodeId THEN level ELSE map[n]]
    ELSE IF map[nodeId] # level
         THEN [map EXCEPT ![nodeId] = AmbiguousLevel]
         ELSE map

RECURSIVE addNodesToLevelIndex(_, _, _)
addNodesToLevelIndex(map, nodes, level) ==
    IF nodes = <<>> THEN map
    ELSE addNodesToLevelIndex(addNodeToLevelIndex(map, Head(nodes), level),
                              Tail(nodes), level)

\* One element of indexNodeLevels' inner loop.  The catalogue writes multi-level
\* tags as ';' lists, so "contains ';'" is "more than one level".
indexElement(map, e, level) ==
    LET el == NavElementCatalogue[e]
    IN  IF el.type = "Way" /\ Len(el.levels) = 1
        THEN addNodesToLevelIndex(map, el.nodes, level)
        ELSE map

RECURSIVE indexLevel(_, _, _)
indexLevel(map, elems, level) ==
    IF elems = <<>> THEN map
    ELSE indexLevel(indexElement(map, Head(elems), level), Tail(elems), level)

RECURSIVE indexNodeLevelsFrom(_, _)
indexNodeLevelsFrom(map, i) ==
    IF i > Len(LevelOrder) THEN map
    ELSE LET level == LevelOrder[i]
         IN  indexNodeLevelsFrom(
                 IF level = 0 THEN map ELSE indexLevel(map, levelMap(level), level),
                 i + 1)

indexNodeLevels(map) == indexNodeLevelsFrom(map, 1)

\* ---- geometry and link buffers ----
\* The buffers processElement fills:
\*   verts : one record per vertex, [at, y], y being the level whose height
\*           mapHeightToNav yields
\*   tris  : one record per face, [i, j, k, area]
\*   vo    : m_vertexOffset
\*   off   : the off-mesh connections
\*   ub    : an access outside a container has happened
addVertex(buf, at, y) == [buf EXCEPT !.verts = Append(@, [at |-> at, y |-> y])]

addFace(buf, i, j, k, areaType) ==
    [buf EXCEPT !.tris = Append(@, [i |-> i, j |-> j, k |-> k, area |-> areaType])]

\* A Backward link is stored as a Forward link with its end points swapped;
\* the direction flag is 1 for Bidirectional links only.
addOffMeshConnection(buf, p1, y1, p2, y2, linkDir, areaType) ==
    LET swap == linkDir = "Backward"
        con  == [from |-> IF swap THEN <<p2, y2>> ELSE <<p1, y1>>,
                 to   |-> IF swap THEN <<p1, y1>> ELSE <<p2, y2>>,
                 dir  |-> IF linkDir = "Bidirectional" THEN 1 ELSE 0,
                 area |-> areaType]
    IN  [buf EXCEPT !.off = Append(@, con)]

\* the vertices of the triangulated area, all at the height of the floor
RECURSIVE addAreaVertices(_, _, _, _)
addAreaVertices(buf, n, floorLevel, i) ==
    IF i > n THEN buf
    ELSE addAreaVertices(addVertex(buf, <<"tri", i>>, floorLevel), n, floorLevel, i + 1)

RECURSIVE addAreaFaces(_, _)
addAreaFaces(buf, faces) ==
    IF faces = <<>> THEN buf
    ELSE LET f == Head(faces)
         IN  addAreaFaces(addFace(buf, f[1] + buf.vo, f[2] + buf.vo, f[3] + buf.vo,
                                  "Walkable"),
                          Tail(faces))

\* the level a stroke vertex is placed at
strokeLevel(map, el, floorLevel, near) ==
    IF Len(el.outer) = 2 /\ el.type = "Way"
    THEN LET l1 == levelForNode(map, el.nodes[1])
             l2 == levelForNode(map, el.nodes[2])
         IN  IF l1 # l2 /\ l1 # AmbiguousLevel /\ l2 # AmbiguousLevel
             THEN (IF near = 1 THEN l1 ELSE l2)
             ELSE floorLevel
    ELSE floorLevel

RECURSIVE addStrokeVertices(_, _, _, _, _)
addStrokeVertices(buf, map, el, floorLevel, i) ==
    IF i > Len(el.stroke) THEN buf
    ELSE addStrokeVertices(
             addVertex(buf, <<"stroke", i>>, strokeLevel(map, el, floorLevel, el.stroke[i])),
             map, el, floorLevel, i + 1)

\* the strip taken one triangle too far
RECURSIVE addStrokeFaces_OneMore(_, _, _)
addStrokeFaces_OneMore(buf, n, i) ==
    IF i >= n - 1 THEN buf
    ELSE addStrokeFaces_OneMore(
             IF i % 2 = 1
             THEN addFace(buf, buf.vo + i, buf.vo + i + 1, buf.vo + i + 2, "Walkable")
             ELSE addFace(buf, buf.vo + i + 1, buf.vo + i, buf.vo + i + 2, "Walkable"),
             n, i + 1)

\* GL_TRIANGLE_STRIP winding order; i counts from 0 as in the source
RECURSIVE addStrokeFaces(_, _, _)
addStrokeFaces(buf, n, i) ==
    IF i >= n - 2 THEN buf
    ELSE addStrokeFaces(
             IF i % 2 = 1
             THEN addFace(buf, buf.vo + i, buf.vo + i + 1, buf.vo + i + 2, "Walkable")
             ELSE addFace(buf, buf.vo + i + 1, buf.vo + i, buf.vo + i + 2, "Walkable"),
             n, i + 1)

isDoor(el, node) == node \in el.doors

\* extrusion with doors tested at the first node of a segment only
extrudeSkips_FirstNodeOnly(el, i) == isDoor(el, el.outer[i])

\* the segment from outer[i] to outer[i + 1] is left out of the wall
extrudeSkips(el, i) == isDoor(el, el.outer[i]) \/ isDoor(el, el.outer[i + 1])

addWallQuad(buf, el, floorLevel, i) ==
    LET p1 == <<"node", el.outer[i]>>
        p2 == <<"node", el.outer[i + 1]>>
        b1 == addVertex(buf, p1, floorLevel)
        b2 == addVertex(b1, p2, floorLevel)
        b3 == addVertex(b2, p1, floorLevel + 10)
        b4 == addVertex(b3, p2, floorLevel + 10)
        b5 == addFace(b4, buf.vo, buf.vo + 1, buf.vo + 2, "Unwalkable")
        b6 == addFace(b5, buf.vo + 1, buf.vo + 3, buf.vo + 2, "Unwalkable")
    IN  [b6 EXCEPT !.vo = @ + 4]

RECURSIVE extrude(_, _, _, _)
extrude(buf, el, floorLevel, i) ==
    IF i >= Len(el.outer) THEN buf
    ELSE extrude(IF extrudeSkips(el, i) THEN buf ELSE addWallQuad(buf, el, floorLevel, i),
                 el, floorLevel, i + 1)

\* a geometry layer of the element runs the extrusion loop on an empty path
extrudesEmptyPath(el) ==
    /\ el.outer = <<>>
    /\ \E i \in 1..Len(el.layers) :
          el.layers[i].selector = "" /\ el.layers[i].extrude > 0

\* the wall quad the loop body makes of what it reads at way[0] and way[1]
\* of an empty vector
garbageWallQuad(buf, floorLevel) ==
    LET p  == <<"garbage", 0>>
        b1 == addVertex(buf, p, floorLevel)
        b2 == addVertex(b1, p, floorLevel)
        b3 == addVertex(b2, p, floorLevel + 10)
        b4 == addVertex(b3, p, floorLevel + 10)
        b5 == addFace(b4, buf.vo, buf.vo + 1, buf.vo + 2, "Unwalkable")
        b6 == addFace(b5, buf.vo + 1, buf.vo + 3, buf.vo + 2, "Unwalkable")
    IN  [b6 EXCEPT !.vo = @ + 4]

processGeometry(buf, map, e, floorLevel, res) ==
    LET el == NavElementCatalogue[e]
        b1 == IF res.area /\ res.fillOpacity > 0
              THEN [addAreaFaces(addAreaVertices(buf, el.triVerts, floorLevel, 1),
                                 el.triFaces)
                        EXCEPT !.vo = @ + el.triVerts]
              ELSE buf
        b2 == IF res.line /\ res.width > 0
              THEN [addStrokeFaces(addStrokeVertices(b1, map, el, floorLevel, 1),
                                   Len(el.stroke), 0)
                        EXCEPT !.vo = @ + Len(el.stroke)]
              ELSE b1
        \* way.size() - 1 is computed unsigned: an empty outer path makes the
        \* loop read way[0]
        b3 == IF res.extrude > 0
              THEN (IF el.outer = <<>> THEN [b2 EXCEPT !.ub = TRUE]
                    ELSE extrude(b2, el, floorLevel, 1))
              ELSE b2
    IN  b3

RECURSIVE addElevatorLinks(_, _, _, _)
addElevatorLinks(buf, e, levels, i) ==
    IF i >= Len(levels) THEN buf
    ELSE addElevatorLinks(
             addOffMeshConnection(buf, <<"center", e>>, levels[i],
                                  <<"center", e>>, levels[i + 1],
                                  "Bidirectional", "Elevator"),
             e, levels, i + 1)

\* poly.at(i) of the polygon createPolygon builds from the outer path
polyAt(el, i) ==
    IF i <= Len(el.outer) THEN <<"node", el.outer[i]>> ELSE <<"out of range", i>>

processLink(buf, map, e, floorLevel, linkDir, res) ==
    LET el == NavElementCatalogue[e]
        b1 == IF res.area /\ Len(el.levels) > 1
              THEN addElevatorLinks(buf, e, el.levels, 1)
              ELSE buf
        l1 == levelForNode(map, el.nodes[1])
        l2 == levelForNode(map, el.nodes[2])
    IN  IF res.line /\ el.type = "Way" /\ Len(el.nodes) = 2
           /\ l1 # l2 /\ l1 # AmbiguousLevel /\ l2 # AmbiguousLevel
        THEN [addOffMeshConnection(b1, polyAt(el, 1), l1, polyAt(el, 2), l2, linkDir,
                                   "Escalator")
                 EXCEPT !.ub = @ \/ Len(el.outer) < 2]
        ELSE b1

\* the dispatch with both strcmp tests left out
linkDirection_AlwaysBidirectional(selector) == "Bidirectional"

linkDirection(selector) ==
    CASE selector = "link_forward"  -> "Forward"
      [] selector = "link_backward" -> "Backward"
      [] OTHER                      -> "Bidirectional"

RECURSIVE processLayers(_, _, _, _, _)
processLayers(buf, map, e, floorLevel, layers) ==
    IF layers = <<>> THEN buf
    ELSE LET res == Head(layers)
             nb  == IF res.selector = ""
                    THEN processGeometry(buf, map, e, floorLevel, res)
                    ELSE processLink(buf, map, e, floorLevel,
                                     linkDirection(res.selector), res)
         IN  processLayers(nb, map, e, floorLevel, Tail(layers))

processElement(buf, map, e, floorLevel) ==
    processLayers(buf, map, e, floorLevel, NavElementCatalogue[e].layers)

\* ---- worker task ----
\* The steps of buildNavMesh, grouped by the builder state they touch, and the
\* calls of each step that can fail and return early.
FailPoints(stage) ==
    CASE stage = "rasterize" -> {"rcCreateHeightfield", "rcRasterizeTriangles"}
      [] stage = "mesh"      -> {"rcBuildCompactHeightfield", "rcErodeWalkableArea",
                                 "rcBuildRegionsMonotone", "rcBuildContours",
                                 "rcBuildPolyMesh", "rcBuildPolyMeshDetail"}
      [] stage = "navdata"   -> {"dtCreateNavMeshData"}
      [] stage = "init"      -> {"dtNavMesh::init", "dtNavMeshQuery::init"}
      [] OTHER               -> {}

NextStage(stage) ==
    CASE stage = "setup"     -> "rasterize"
      [] stage = "rasterize" -> "mesh"
      [] stage = "mesh"      -> "navdata"
      [] stage = "navdata"   -> "init"
      [] stage = "init"      -> "assign"

\* Builder members a worker step reads ("r") or writes ("w").
WorkerAccess(pc) ==
    CASE pc = "setup"     -> {<<"m_data", "r">>, <<"m_transform", "r">>}
      [] pc = "rasterize" -> {<<"m_verts", "r">>, <<"m_tris", "r">>, <<"m_triAreaIds", "r">>}
      [] pc = "navdata"   -> {<<"m_offMeshCon", "r">>}
      [] pc = "assign"    -> {<<"m_navMesh", "w">>}
      [] OTHER            -> {}

\* Builder members the main thread reads or writes at a position.
MainAccess(pc) ==
    CASE pc = "transform" -> {<<"m_data", "r">>, <<"m_transform", "w">>}
      [] pc = "index"     -> {<<"m_data", "r">>, <<"m_nodeLevelMap", "w">>}
      [] pc = "process"   -> {<<"m_data", "r">>, <<"m_transform", "r">>,
                              <<"m_nodeLevelMap", "r">>, <<"m_verts", "w">>,
                              <<"m_tris", "w">>, <<"m_triAreaIds", "w">>,
                              <<"m_offMeshCon", "w">>}
      [] pc = "debug"     -> {<<"m_data", "r">>, <<"m_transform", "r">>,
                              <<"m_verts", "r">>, <<"m_tris", "r">>,
                              <<"m_offMeshCon", "r">>}
      [] pc = "navMesh"   -> {<<"m_navMesh", "r">>}
      [] OTHER            -> {}

NullEquipment == [isNull |-> TRUE, hidden |-> {}]

NotRead == [read |-> FALSE, mesh |-> NullNavMesh]

\* A lambda handed to the thread pool: where it is, whether buildNavMesh ran to
\* its end, how often it queued finished, and (history) whether every earlier
\* lambda had been delivered when it was spawned.
NoTask == [pc |-> "none", ok |-> FALSE, emits |-> 0, alone |-> FALSE]

SpawnedTask(k, ts) ==
    [pc |-> "queued", ok |-> FALSE, emits |-> 0,
     alone |-> \A j \in 1..(k - 1) : ts[j].pc = "delivered"]

\* The state a NavMeshBuilder is in after construction.
NavConstructed ==
    /\ m_data = "empty"
    /\ m_equipmentModel = NullEquipment
    /\ debugFiles = FALSE
    /\ mainPc = "idle"
    /\ cursor = 0
    /\ startCount = 0
    /\ runBase = 0
    /\ halfDone = [k \in 1..MaxStarts |-> {}]
    /\ m_nodeLevelMap = [n \in {} |-> 0]
    /\ numVerts = 0 /\ numTris = 0 /\ m_vertexOffset = 0
    /\ m_offMeshCon = <<>>
    /\ tasks = [k \in 1..MaxStarts |-> NoTask]
    /\ m_navMesh = NullNavMesh
    /\ navRead = NotRead
    /\ callLog = <<>>

(***************************************************************************)
(*                      Element::outerPath, step by step                   *)
(***************************************************************************)
PathUnused ==
    /\ dsNodes = NodeIds /\ relMembers = <<>> /\ relType = "multipolygon"
    /\ opElem = [type |-> "Null", id |-> NoId]
    /\ opPc = "idle" /\ opWays = <<>> /\ opNodes = <<>>
    /\ opStart = NoId /\ opLast = NoId
    /\ bboxDone = FALSE /\ bboxValue = InvalidBbox

HitUnused == sgItems = <<>> /\ viewPan = 0 /\ HitIdle

ElemUnused ==
    /\ peElem = 0 /\ peFloor = 0 /\ peMap = <<>>
    /\ peBase = <<>> /\ peBuf = <<>> /\ pePc = "idle"

(***************************************************************************)
(*                      FloorLevelChangeModel: data                        *)
(***************************************************************************)
TagKeys ==
    {"highway", "elevator", "stairwell", "building:part", "building", "room",
     "levelpart", "indoor", "stairs", "building:levels", "building:min_level",
     "building:levels:underground", "level", "repeat_on"}

\* a tag set: the value of each key, "" for a key the element does not carry
Tags(set) == [k \in TagKeys |-> IF k \in DOMAIN set THEN set[k] ELSE ""]

\* OSM::Element::tagValue(key) and tagValue(key1, key2): the first non-empty
tagValue(tags, key) == tags[key]

tagValue2(tags, key1, key2) == IF tags[key1] # "" THEN tags[key1] ELSE tags[key2]

FlcElementCatalogue == <<
    \* 1: elevator node on four floors
    Tags("highway" :> "elevator" @@ "level" :> "-1;0;1;2"),
    \* 2: staircase between the ground and the first floor
    Tags("room" :> "stairs" @@ "level" :> "0;1"),
    \* 3: a shop on two floors, no level-change element
    Tags("room" :> "shop" @@ "level" :> "0;1"),
    \* 4: elevator building of three storeys and one basement
    Tags("building" :> "elevator" @@ "building:levels" :> "3"
         @@ "building:levels:underground" :> "1"),
    \* 5: indoor stairs listing an intermediate level between its two floors
    Tags("indoor" :> "room" @@ "stairs" :> "yes" @@ "level" :> "0;0.5;1"),
    \* 6: elevator tagged with one level
    Tags("elevator" :> "yes" @@ "level" :> "2"),
    \* 7: stairwell on an intermediate basement level
    Tags("stairwell" :> "yes" @@ "repeat_on" :> "-0.5"),
    \* 8: elevator part starting on the first floor, also tagged with its level
    Tags("building:part" :> "elevator" @@ "building:levels" :> "3"
         @@ "building:min_level" :> "1" @@ "level" :> "1;2"),
    \* 9: elevator platform whose only minimum level is a level list
    Tags("levelpart" :> "elevator_platform" @@ "building:levels" :> "2"
         @@ "level" :> "-1;0;1;2"),
    \* 10: elevator whose storey numbers are beyond a tenth of 2^32
    Tags("elevator" :> "yes" @@ "building:levels" :> "429496731"
         @@ "building:min_level" :> "429496730")
>>

\* QString::toUInt(): the number for a string of decimal digits, 0 otherwise
toUInt(str) ==
    CASE str = "1" -> 1
      [] str = "2" -> 2
      [] str = "3" -> 3
      [] str = "429496730" -> 429496730
      [] str = "429496731" -> 429496731
      [] OTHER     -> 0

\* LevelParser::parse: the numeric levels (10 x floor) of a ';' list, in order
LevelParserParse(str) ==
    CASE str = "-1;0;1;2" -> <<-10, 0, 10, 20>>
      [] str = "0;1"      -> <<0, 10>>
      [] str = "0;0.5;1"  -> <<0, 5, 10>>
      [] str = "2"        -> <<20>>
      [] str = "-0.5"     -> <<-5>>
      [] str = "1;2"      -> <<10, 20>>
      [] OTHER            -> <<>>

\* 32 bit unsigned arithmetic on the two 16 bit halves of a value
Half == 65536

U32Of(n) == [hi |-> n \div Half, lo |-> n % Half]

\* unary minus of an unsigned value
U32Neg(x) ==
    IF x.hi = 0 /\ x.lo = 0 THEN x
    ELSE [hi |-> (Half - 1 - x.hi + (IF x.lo = 0 THEN 1 ELSE 0)) % Half,
          lo |-> (Half - x.lo) % Half]

U32Mul10(x) ==
    LET l == x.lo * 10
    IN  [hi |-> (x.hi * 10 + l \div Half) % Half, lo |-> l % Half]

\* an unsigned 32 bit value passed for an int parameter
ToInt32(x) ==
    IF x.hi >= Half \div 2 THEN (x.hi - Half) * Half + x.lo
    ELSE x.hi * Half + x.lo

\* MapLevel
isFullLevel(level) == level % 10 = 0

fullLevelBelow(level) == (level \div 10) * 10

fullLevelAbove(level) == (level \div 10) * 10 + 10

\* the order of the level numbers
MapLevelLess_Ascending(a, b) == a < b

\* MapLevel::operator<: the level map runs from the highest level to the
\* lowest, a level is "less" when its number is greater
MapLevelLess(a, b) == a > b

\* std::sort of a MapLevel vector
RECURSIVE InsertLevel(_, _)
InsertLevel(sorted, x) ==
    IF sorted = <<>> THEN <<x>>
    ELSE IF MapLevelLess(x, Head(sorted)) THEN <<x>> \o sorted
    ELSE <<Head(sorted)>> \o InsertLevel(Tail(sorted), x)

RECURSIVE SortLevels(_)
SortLevels(levels) ==
    IF levels = <<>> THEN <<>>
    ELSE InsertLevel(SortLevels(Tail(levels)), Head(levels))

\* erase(std::unique(...)): of each run of equal neighbours the first is kept
RECURSIVE UniqueLevels(_)
UniqueLevels(levels) ==
    IF Len(levels) < 2 THEN levels
    ELSE IF levels[1] = levels[2] THEN UniqueLevels(Tail(levels))
    ELSE <<levels[1]>> \o UniqueLevels(Tail(levels))

\* the FloorLevelModel objects and the level sets one can have rows for
FloorLevelModels == {1, 2}

FloorLevelRows == {{-10, 0, 10, 20}, {0, 10}}

CurrentFloorLevels == {-10, 0, 10, 20}

\* model is the attached FloorLevelModel (0: none), rows its levels
appendFullFloorLevel(levels, model, rows, level) ==
    IF model = 0 THEN Append(levels, level)
    ELSE IF level \in rows THEN Append(levels, level)
    ELSE levels

appendFloorLevel(levels, model, rows, level) ==
    IF isFullLevel(level)
    THEN appendFullFloorLevel(levels, model, rows, level)
    ELSE appendFullFloorLevel(
             appendFullFloorLevel(levels, model, rows, fullLevelBelow(level)),
             model, rows, fullLevelAbove(level))

isLevelChangeElement(tags) ==
    \/ tagValue(tags, "highway") # ""
    \/ tagValue(tags, "elevator") # ""
    \/ tagValue(tags, "stairwell") # ""
    \/ tagValue(tags, "building:part") = "elevator"
    \/ tagValue(tags, "building") = "elevator"
    \/ tagValue(tags, "room") = "elevator"
    \/ tagValue(tags, "levelpart") = "elevator_platform"
    \/ (tagValue(tags, "indoor") # "" /\ tagValue(tags, "stairs") = "yes")
    \/ tagValue(tags, "room") = "stairs"

\* i * 10 and -i * 10 for an unsigned i, passed as the int level
buildingLevel(i) == ToInt32(U32Mul10(U32Of(i)))

undergroundLevel(i) == ToInt32(U32Mul10(U32Neg(U32Of(i))))

\* for (auto i = buildingMinLevel; i < buildingLevels; ++i), i unsigned
RECURSIVE appendBuildingLevels(_, _, _, _, _)
appendBuildingLevels(levels, model, rows, i, buildingLevels) ==
    IF i >= buildingLevels THEN levels
    ELSE appendBuildingLevels(
             appendFullFloorLevel(levels, model, rows, buildingLevel(i)),
             model, rows, i + 1, buildingLevels)

\* for (auto i = buildingUndergroundLevel; i > 0; --i), -i * 10 unsigned
RECURSIVE appendUndergroundLevels(_, _, _, _)
appendUndergroundLevels(levels, model, rows, i) ==
    IF i = 0 THEN levels
    ELSE appendUndergroundLevels(
             appendFullFloorLevel(levels, model, rows, undergroundLevel(i)),
             model, rows, i - 1)

RECURSIVE appendParsedLevels(_, _, _, _)
appendParsedLevels(levels, model, rows, parsed) ==
    IF parsed = <<>> THEN levels
    ELSE appendParsedLevels(appendFloorLevel(levels, model, rows, Head(parsed)),
                            model, rows, Tail(parsed))

\* the level list setElement computes for a non-null element
levelsOfElement(tags, model, rows) ==
    IF ~isLevelChangeElement(tags) THEN <<>>
    ELSE LET buildingLevels == toUInt(tagValue(tags, "building:levels"))
             buildingMinLevel ==
                 toUInt(tagValue2(tags, "building:min_level", "level"))
             b1 == IF buildingLevels > 0
                   THEN appendBuildingLevels(<<>>, model, rows, buildingMinLevel,
                                             buildingLevels)
                   ELSE <<>>
             u  == toUInt(tagValue(tags, "building:levels:underground"))
             b2 == appendUndergroundLevels(b1, model, rows, u)
             b3 == appendParsedLevels(b2, model, rows,
                       LevelParserParse(tagValue2(tags, "level", "repeat_on")))
         IN  UniqueLevels(SortLevels(b3))

hasSingleLevelChange(levels, current) ==
    IF Len(levels) # 2 THEN FALSE
    ELSE levels[1] = current \/ levels[2] = current

destinationLevel(levels, current) ==
    IF Len(levels) # 2 THEN 0
    ELSE IF levels[1] = current THEN levels[2] ELSE levels[1]

hasMultipleLevelChanges(levels) == Len(levels) > 1

FlcUnused ==
    /\ m_element = NullElement /\ m_levels = <<>> /\ m_currentFloorLevel = 0
    /\ m_floorLevelModel = 0
    /\ flmLevels = [m \in FloorLevelModels |-> {-10, 0, 10, 20}]

(***************************************************************************)
(*                      MapItem: data                                      *)
(***************************************************************************)
MaxDataSets == 4

\* a style that compile() has not been called on
NotCompiled == 0

\* the names setStylesheetName is called with; "broken" names a file the
\* parser reports an error for
StyleSheetNames == {"", "default", "breeze-dark", "broken"}

\* the file a name resolves to, for a light palette
styleFile(styleSheet) ==
    IF styleSheet = "" \/ styleSheet = "default" THEN "breeze-light" ELSE styleSheet

\* MapCSSParser::parse(): the style object and the parser's hasError()
parsedStyle(file) ==
    [sheet |-> file, error |-> file = "broken", compiledFor |-> NotCompiled]

\* MapCSSStyle::compile(dataSet)
compile(style, data) == [style EXCEPT !.compiledFor = data.id]

\* a MapData: data sets are told apart by a number counted from 1
MapData(id, empty) == [id |-> id, empty |-> empty]

\* updateScene evaluates the style on the elements of the current floor:
\* it needs a style, and a data set that has elements
evaluates(styleSet, data) == styleSet /\ ~data.empty

NoPaint == [evaluated |-> FALSE, error |-> FALSE, compiledFor |-> NotCompiled, data |-> 0]

MapItemUnused ==
    /\ miData = MapData(0, TRUE) /\ miStyleSheetName = ""
    /\ miStyle = parsedStyle("") /\ miError = FALSE /\ miSgEmpty = TRUE
    /\ miLoading = FALSE /\ miNextId = 0
    /\ ctlData = MapData(0, TRUE) /\ ctlStyleSet = FALSE /\ miPaint = NoPaint

(***************************************************************************)
(*                  PainterRenderer::render: data                          *)
(***************************************************************************)
MaxRenderItems == 3

\* the phase list of the range-for in render(), in its order
RenderPhaseList == <<"FillPhase", "CasingPhase", "StrokePhase", "LabelPhase">>

\* payloads: their class, layer, renderPhases() bitset, the space they live
\* in, and the outcome of the intersects() test of that space
RenderPayload(kind, layer, phases, inScene, inHUD, inView) ==
    [kind |-> kind, layer |-> layer, phases |-> phases,
     inScene |-> inScene, inHUD |-> inHUD, inView |-> inView]

RenderItemCatalogue ==
    <<RenderPayload("PolygonItem", 0, {"FillPhase", "StrokePhase"}, TRUE, FALSE, TRUE),
      RenderPayload("PolylineItem", 0, {"CasingPhase", "StrokePhase"}, TRUE, FALSE, TRUE),
      RenderPayload("MultiPolygonItem", 0, {"FillPhase"}, TRUE, FALSE, FALSE),
      RenderPayload("PolygonItem", 0, {}, TRUE, FALSE, TRUE),
      RenderPayload("LabelItem", 1, {"LabelPhase"}, FALSE, TRUE, TRUE),
      RenderPayload("MultiPolygonItem", 1, {"FillPhase", "StrokePhase"}, TRUE, FALSE, TRUE),
      RenderPayload("LabelItem", 1, {"LabelPhase"}, FALSE, TRUE, FALSE),
      RenderPayload("PolylineItem", 2, {"StrokePhase"}, TRUE, FALSE, TRUE)>>

RenderItemIds == 1..Len(RenderItemCatalogue)

\* scene graphs: the items are kept sorted by layer
RenderSceneGraphs ==
    {sg \in UNION {[1..n -> RenderItemIds] : n \in 0..MaxRenderItems} :
        \A i \in 1..Len(sg) - 1 :
            RenderItemCatalogue[sg[i]].layer <= RenderItemCatalogue[sg[i + 1]].layer}

\* positions where a new layer begins
LayerStarts(sg) ==
    {i \in 1..Len(sg) :
        i = 1 \/ RenderItemCatalogue[sg[i]].layer # RenderItemCatalogue[sg[i - 1]].layer}

\* sg.layerOffsets(): one half-open range [first, second) of item offsets
\* per layer, in layer order
layerOffsets(sg) ==
    LET starts == LayerStarts(sg)
        nth(k) == CHOOSE s \in starts : Cardinality({t \in starts : t < s}) = k - 1
    IN  [k \in 1..Cardinality(starts) |->
            [first |-> nth(k) - 1,
             second |-> IF k = Cardinality(starts) THEN Len(sg) ELSE nth(k + 1) - 1]]

\* the two tests that put an item into m_renderBatch
selectedInScene(payload) == payload.inScene /\ payload.inView

selectedInHUD(payload) == payload.inHUD /\ payload.inView

\* m_renderBatch of one range: positions first+1 .. second, an item once
\* for each of the two tests it passes
RECURSIVE renderBatchOf(_, _, _)
renderBatchOf(sg, from, to) ==
    IF from > to THEN <<>>
    ELSE LET payload == RenderItemCatalogue[sg[from]]
         IN  (IF selectedInScene(payload) THEN <<from>> ELSE <<>>)
             \o (IF selectedInHUD(payload) THEN <<from>> ELSE <<>>)
             \o renderBatchOf(sg, from + 1, to)

\* (item->renderPhases() & phase) != 0
inRenderPhase_Always(payload, phase) == TRUE

inRenderPhase(payload, phase) == phase \in payload.phases

\* the render function the dynamic_cast chain selects
renderCallOf(payload) ==
    CASE payload.kind = "PolygonItem" -> "renderPolygon"
      [] payload.kind = "MultiPolygonItem" -> "renderMultiPolygon"
      [] payload.kind = "PolylineItem" -> "renderPolyline"
      [] payload.kind = "LabelItem" -> "renderLabel"

\* m_view and m_painter before they are set
NullView == "nullptr"

NullPainter == "nullptr"

\* the painters MapItem::paint may be handed: their font metrics differ
Painters == {"screen", "printer"}

\* the bounding box a scene item has before its first draw
coarseBbox(id) == [payload |-> id, metrics |-> "coarse"]

\* the box renderLabel computes: m_painter->boundingRect of the text in the
\* item's font, united with the icon, centred on the item's position
fineBbox(id, painter) == [payload |-> id, metrics |-> painter]

\* if (!item->hasFineBbox)
computesBbox_Always(cached) == TRUE

computesBbox(cached) == ~cached.hasFineBbox

\* what renderLabel leaves in the item
renderLabel(cached, id, painter) ==
    IF computesBbox(cached)
    THEN [hasFineBbox |-> TRUE, bbox |-> fineBbox(id, painter)]
    ELSE cached

RenderUnused ==
    /\ rSg = <<>> /\ rPc = "idle" /\ rRange = 0 /\ rPhase = 0
    /\ rBatch = <<>> /\ rPos = 0 /\ rLog = <<>>
    /\ rCache = <<>> /\ rView = NullView /\ rPainter = NullPainter /\ rDepth = 0

(***************************************************************************)
(*                  MapCSSCondition::matches: data                         *)
(***************************************************************************)
\* elements: their type and their tag list in storage order
CondElement(type, tags) == [type |-> type, tags |-> tags]

CondElementCatalogue ==
    <<CondElement("Null", <<>>),
      CondElement("Node", <<>>),
      CondElement("Node", <<<<"indoor", "room">>>>),
      CondElement("Way", <<<<"indoor", "yes">>, <<"level", "1">>>>),
      CondElement("Way", <<<<"level", "">>>>),
      CondElement("Relation", <<<<"door", "yes">>, <<"indoor", "room">>>>)>>

CondKeys == {"indoor", "level", "door"}

CondValues == {"room", "yes", "1"}

CondOps == {"None", "Equal", "NotEqual"}

Conditions == [op : CondOps, key : CondKeys, value : CondValues]

\* OSM::tagValue(elem, key): the value of the first tag with this key, the
\* empty string if there is none
RECURSIVE findTagValue(_, _)
findTagValue(tags, key) ==
    IF tags = <<>> THEN ""
    ELSE IF Head(tags)[1] = key THEN Head(tags)[2]
    ELSE findTagValue(Tail(tags), key)

\* Element::tagValue(keyName)
elementTagValue(elem, key) ==
    IF elem.type = "Null" THEN "" ELSE findTagValue(elem.tags, key)

\* MapCSSCondition::matches(state)
matches(cond, elem) ==
    LET v == elementTagValue(elem, cond.key)
    IN  CASE cond.op = "None" -> v # ""
          [] cond.op = "Equal" -> v = cond.value
          [] cond.op = "NotEqual" -> v # cond.value

NotCalled == [called |-> FALSE, value |-> FALSE]

CondUnused ==
    /\ cdElem = CondElementCatalogue[1]
    /\ cdCond = [op |-> "None", key |-> "", value |-> ""]
    /\ cdResult = NotCalled

(***************************************************************************)
(*                  The builder's arrays: data                             *)
(***************************************************************************)
MaxArrayCalls == 4

\* coordinates and index triples the calls are made with
ArrayPoints == {<<0, 0, 0>>, <<1, 0, 1>>}

ArrayFaces == {<<0, 1, 2>>, <<1, 3, 2>>}

AreaTypes == {"Walkable", "Unwalkable"}

LinkDirections == {"Forward", "Backward", "Bidirectional"}

NoOffMeshCon ==
    [verts |-> <<>>, rads |-> <<>>, flags |-> <<>>, areas |-> <<>>,
     dir |-> <<>>, userId |-> <<>>]

\* addVertex: m_verts after the call
pushVertex(verts, p) == verts \o <<p[1], p[2], p[3]>>

\* addFace: m_tris and m_triAreaIds after the call
pushFace_NoAreaId(tris, areaIds, f, areaType) ==
    [tris |-> tris \o <<f[1], f[2], f[3]>>, areaIds |-> areaIds]

pushFace(tris, areaIds, f, areaType) ==
    [tris |-> tris \o <<f[1], f[2], f[3]>>, areaIds |-> Append(areaIds, areaType)]

\* addOffMeshConnection: m_offMeshCon after the call
pushOffMeshConnection(con, p1, p2, linkDir, areaType) ==
    LET from == IF linkDir = "Backward" THEN p2 ELSE p1
        to   == IF linkDir = "Backward" THEN p1 ELSE p2
    IN  [verts  |-> con.verts \o from \o to,
         rads   |-> Append(con.rads, "0.6"),
         flags  |-> Append(con.flags, 8),
         areas  |-> Append(con.areas, areaType),
         dir    |-> Append(con.dir, IF linkDir = "Bidirectional" THEN 1 ELSE 0),
         userId |-> Append(con.userId, 0)]

ArraysUnused ==
    /\ aVerts = <<>> /\ aTris = <<>> /\ aTriAreaIds = <<>>
    /\ aOffMeshCon = NoOffMeshCon

(***************************************************************************)
(*                      OSM::intersects: data                              *)
(***************************************************************************)
\* largest latitude and longitude of the boxes tried
MaxCoord == 2

\* valid boxes with integer coordinates, min <= max on both axes
CoordBoxes ==
    {b \in [min : (0..MaxCoord) \X (0..MaxCoord), max : (0..MaxCoord) \X (0..MaxCoord)] :
        b.min[1] <= b.max[1] /\ b.min[2] <= b.max[2]}

\* OSM::intersects; [1] is the latitude, [2] the longitude
intersects(bbox1, bbox2) ==
    /\ \/ bbox1.min[1] >= bbox2.min[1] /\ bbox1.min[1] <= bbox2.max[1]
       \/ bbox1.max[2] >= bbox2.min[2] /\ bbox1.max[2] <= bbox2.max[2]
    /\ \/ bbox1.min[2] >= bbox2.min[2] /\ bbox1.min[2] <= bbox2.max[2]
       \/ bbox1.max[1] >= bbox2.min[1] /\ bbox1.max[1] <= bbox2.max[1]

NoIntersects == [called |-> FALSE, ab |-> FALSE, ba |-> FALSE]

IsectUnused ==
    /\ isA = InvalidBbox /\ isB = InvalidBbox /\ isResult = NoIntersects

(***************************************************************************)
(*                Element::recomputeBoundingBox: data                      *)
(***************************************************************************)
\* the deepest nesting of calls the stack of the thread has room for
MaxStackDepth == 4

RelationIds == 1..3

\* ids no element of the data set has
MissingNodeId == 7
MissingRelationId == 4

N(id) == [type |-> "Node", id |-> id]
W(id) == [type |-> "Way", id |-> id]
R(id) == [type |-> "Relation", id |-> id]

\* Relation::members of the three relations, for each data set
BboxDataSets == <<
    \* 1: relations nested three deep, relation 1 reached along two paths
    << <<W(3), N(3)>>, <<R(1), W(2)>>, <<R(2), R(1)>> >>,
    \* 2: relation 1 is a member of itself
    << <<N(1), R(1)>>, <<W(3)>>, <<R(2), N(5)>> >>,
    \* 3: relation 1 is a member of itself through relations 2 and 3
    << <<W(3), R(2)>>, <<R(3)>>, <<N(6), R(1)>> >>,
    \* 4: members the data set does not resolve, a null member, and a way without nodes
    << <<W(MissingWayId), N(MissingNodeId), R(MissingRelationId), [type |-> "Null", id |-> NoId]>>,
       <<R(1), W(8)>>, <<N(1), N(MissingNodeId)>> >>
>>

\* the elements recomputeBoundingBox is called on
BboxRoots ==
    {R(id) : id \in RelationIds} \cup {W(1), W(8), N(1), [type |-> "Null", id |-> NoId]}

\* a box left from before the call
StaleBox == [min |-> <<1, 1>>, max |-> <<2, 2>>]

\* the lookup of for_each_member finds the member in the data set
memberResolves(mem) ==
    CASE mem.type = "Null" -> FALSE
      [] mem.type = "Node" -> mem.id \in NodeIds
      [] mem.type = "Way" -> mem.id \in WayIds
      [] mem.type = "Relation" -> mem.id \in RelationIds

\* Element::boundingBox
boundingBox(elem, relBox, wayBox) ==
    CASE elem.type = "Null" -> InvalidBbox
      [] elem.type = "Node" -> [min |-> NodeCoord[elem.id], max |-> NodeCoord[elem.id]]
      [] elem.type = "Way" -> wayBox[elem.id]
      [] elem.type = "Relation" -> relBox[elem.id]

\* recomputeBoundingBox on a way: the accumulated box of its nodes
recomputeWayBox(wayBox, id) ==
    [wayBox EXCEPT ![id] = accumulateBbox(InvalidBbox, WayCatalogue[id])]

BboxUnused ==
    /\ rbData = 1 /\ rbRoot = [type |-> "Null", id |-> NoId] /\ rbStack = <<>>
    /\ rbRelBox = [r \in RelationIds |-> StaleBox]
    /\ rbWayBox = [w \in WayIds |-> StaleBox]
    /\ rbPc = "idle"

NoLookup == [node |-> 0, recorded |-> FALSE, level |-> 0]

IndexUnused ==
    ixMap = <<>> /\ ixLeft = {} /\ ixRead = NoLookup

\* every part but the named one is at rest
AllUnusedBut(part) ==
    /\ IF part = "hit" THEN TRUE ELSE HitUnused
    /\ IF part = "path" THEN TRUE ELSE PathUnused
    /\ IF part = "nav" THEN TRUE ELSE NavConstructed
    /\ IF part = "elem" THEN TRUE ELSE ElemUnused
    /\ IF part = "index" THEN TRUE ELSE IndexUnused
    /\ IF part = "flc" THEN TRUE ELSE FlcUnused
    /\ IF part = "mapitem" THEN TRUE ELSE MapItemUnused
    /\ IF part = "render" THEN TRUE ELSE RenderUnused
    /\ IF part = "cond" THEN TRUE ELSE CondUnused
    /\ IF part = "arrays" THEN TRUE ELSE ArraysUnused
    /\ IF part = "isect" THEN TRUE ELSE IsectUnused
    /\ IF part = "bbox" THEN TRUE ELSE BboxUnused

\* Element::outerPath is called: a way resolves its nodes, a relation that
\* is a multipolygon collects its outer ways, every other relation yields {}
OuterPathCall ==
    /\ opPc \in {"idle", "done"}
    /\ opStart' = NoId /\ opLast' = NoId
    /\ CASE opElem.type = "Way" ->
              /\ opNodes' = appendNodesFromWay(<<>>, WayCatalogue[opElem.id])
              /\ opWays' = <<>>
              /\ opPc' = "done"
         [] opElem.type = "Relation" /\ relType # "multipolygon" ->
              /\ opNodes' = <<>>
              /\ opWays' = <<>>
              /\ opPc' = "done"
         [] opElem.type = "Relation" /\ relType = "multipolygon" ->
              /\ opNodes' = <<>>
              /\ opWays' = collectWays(relMembers)
              /\ opPc' = "loop"
    /\ UNCHANGED <<dsNodes, relMembers, relType, opElem, bboxDone, bboxValue>>
    /\ UNCHANGED exceptPath

\* head of the stitching loop: done when no way is left, otherwise the first
\* way is appended and becomes the start of a sub-loop
OuterPathLoop ==
    /\ opPc = "loop"
    /\ IF opWays = <<>>
       THEN /\ opPc' = "done"
            /\ UNCHANGED <<opNodes, opStart, opLast>>
       ELSE LET w == WayCatalogue[opWays[1]]
            IN  /\ opNodes' = appendNodesFromWay(opNodes, w)
                /\ opStart' = w[1]
                /\ opLast' = w[Len(w)]
                /\ opPc' = "next"
    /\ UNCHANGED <<dsNodes, relMembers, relType, opElem, opWays, bboxDone, bboxValue>>
    /\ UNCHANGED exceptPath

\* one round of the do-while: lastNode = appendNextPath(...), repeated while
\* lastNode is set and differs from startNode
OuterPathNext ==
    /\ opPc = "next"
    /\ LET r == appendNextPath(opNodes, opLast, opWays)
       IN  /\ opNodes' = r.nodes
           /\ opWays' = r.ways
           /\ opLast' = r.last
           /\ opPc' = IF r.last # NoId /\ r.last # opStart THEN "next" ELSE "erase"
    /\ UNCHANGED <<dsNodes, relMembers, relType, opElem, opStart, bboxDone, bboxValue>>
    /\ UNCHANGED exceptPath

\* it = ways.erase(it): the way the sub-loop started with is dropped
OuterPathErase ==
    /\ opPc = "erase"
    /\ opWays' = Tail(opWays)
    /\ opPc' = "loop"
    /\ UNCHANGED <<dsNodes, relMembers, relType, opElem, opNodes, opStart, opLast,
                   bboxDone, bboxValue>>
    /\ UNCHANGED exceptPath

\* Element::recomputeBoundingBox on a way
RecomputeBoundingBox ==
    /\ opPc \in {"idle", "done"}
    /\ opElem.type = "Way"
    /\ ~bboxDone
    /\ bboxValue' = accumulateBbox(InvalidBbox, WayCatalogue[opElem.id])
    /\ bboxDone' = TRUE
    /\ UNCHANGED <<dsNodes, relMembers, relType, opElem, opPc, opWays, opNodes,
                   opStart, opLast>>
    /\ UNCHANGED exceptPath

OuterPathStep == OuterPathCall \/ OuterPathLoop \/ OuterPathNext \/ OuterPathErase

InitPath ==
    /\ AllUnusedBut("path")
    /\ dsNodes \in NodeSets
    /\ \/ /\ opElem = [type |-> "Relation", id |-> 1]
          /\ relMembers \in MemberLists(MaxMembers)
          /\ relType \in {"multipolygon", "route"}
       \/ /\ opElem \in {[type |-> "Way", id |-> w] : w \in WayIds}
          /\ relMembers = <<>>
          /\ relType = "multipolygon"
    /\ opPc = "idle" /\ opWays = <<>> /\ opNodes = <<>>
    /\ opStart = NoId /\ opLast = NoId
    /\ bboxDone = FALSE /\ bboxValue = InvalidBbox

NextPath ==
    \/ OuterPathCall
    \/ OuterPathLoop
    \/ OuterPathNext
    \/ OuterPathErase
    \/ RecomputeBoundingBox

\* outerPath is a plain function call: once called it runs to its end
SpecPath == InitPath /\ [][NextPath]_vars /\ WF_vars(OuterPathStep)

(***************************************************************************)
(*                      Scene / hit-test actions                           *)
(***************************************************************************)
\* SceneGraph::addItem as used by the scene controller: one item per element,
\* all on the same (layer, z), appended in insertion order
SgAddItem(item) ==
    /\ Len(sgItems) < MaxItems
    /\ item \notin Range(sgItems)
    /\ sgItems' = Append(sgItems, item)
    /\ HitReset
    /\ UNCHANGED viewPan
    /\ UNCHANGED exceptHit

\* SceneGraph::clear (MapItem::loaderDone, MapItem::clear)
SgClear ==
    /\ sgItems # <<>>
    /\ sgItems' = <<>>
    /\ HitReset
    /\ UNCHANGED viewPan
    /\ UNCHANGED exceptHit

\* the view is panned
ViewPanTo(pan) ==
    /\ pan # viewPan
    /\ viewPan' = pan
    /\ HitReset
    /\ UNCHANGED sgItems
    /\ UNCHANGED exceptHit

\* MapItem::elementAt(x, y): runs HitDetector::itemAt on m_sg and m_view
ElementAt(pos) ==
    /\ \E r \in itemAt(pos, sgItems, viewPan) :
        /\ hitResult' = r
        /\ hitElement' = IF r # NullItem THEN ItemCatalogue[r].elem ELSE NullElement
    /\ hitPrev' = IF hitPc = "done" THEN [pos |-> hitPos, res |-> hitResult] ELSE <<>>
    /\ hitPos' = pos
    /\ hitPc' = "done"
    /\ UNCHANGED <<sgItems, viewPan>>
    /\ UNCHANGED exceptHit

InitHit ==
    /\ sgItems = <<>>
    /\ viewPan = 0
    /\ HitIdle
    /\ AllUnusedBut("hit")

NextHit ==
    \/ \E item \in ItemIds : SgAddItem(item)
    \/ SgClear
    \/ \E pan \in ViewPans : ViewPanTo(pan)
    \/ \E pos \in ScreenPositions : ElementAt(pos)

SpecHit == InitHit /\ [][NextHit]_vars

(***************************************************************************)
(*      NavMeshBuilder: main-thread operations, worker task, event loop    *)
(*                                                                         *)
(* The main thread runs the operations of NavMeshBuilder one at a time.    *)
(* Every start() hands a lambda to the global thread pool; the lambdas run *)
(* concurrently with the main thread and with each other.  Nothing in the  *)
(* builder keeps the caller from calling start(), setMapData() or          *)
(* navMesh() while a lambda is running, so the model allows it.  start()   *)
(* is only called with map data and an equipment model set: it             *)
(* dereferences m_equipmentModel unconditionally.                          *)
(***************************************************************************)
PhasesOfStart == {"transform", "index", "process", "debug"}

\* The builder keeps appending to its buffers; the model keeps the sizes of the
\* vertex and triangle arrays and hands processElement empty ones to append to.
Buffers == [verts |-> <<>>, tris |-> <<>>, vo |-> m_vertexOffset,
            off |-> m_offMeshCon, ub |-> FALSE]

\* setMapData with a non-empty MapData
SetMapData ==
    /\ mainPc = "idle"
    /\ m_data' = "loaded"
    /\ UNCHANGED <<m_equipmentModel, debugFiles, mainPc, cursor, startCount, runBase,
                   halfDone, m_nodeLevelMap, numVerts, numTris, m_vertexOffset,
                   m_offMeshCon, tasks, m_navMesh, navRead, callLog>>
    /\ UNCHANGED exceptNav

SetEquipmentModel(hidden) ==
    /\ mainPc = "idle"
    /\ m_equipmentModel.isNull
    /\ m_equipmentModel' = [isNull |-> FALSE, hidden |-> hidden]
    /\ UNCHANGED <<m_data, debugFiles, mainPc, cursor, startCount, runBase,
                   halfDone, m_nodeLevelMap, numVerts, numTris, m_vertexOffset,
                   m_offMeshCon, tasks, m_navMesh, navRead, callLog>>
    /\ UNCHANGED exceptNav

WriteDebugNavMesh ==
    /\ mainPc = "idle"
    /\ ~debugFiles
    /\ startCount = 0
    /\ debugFiles' = TRUE
    /\ UNCHANGED <<m_data, m_equipmentModel, mainPc, cursor, startCount, runBase,
                   halfDone, m_nodeLevelMap, numVerts, numTris, m_vertexOffset,
                   m_offMeshCon, tasks, m_navMesh, navRead, callLog>>
    /\ UNCHANGED exceptNav

\* start() is called: the main thread enters the function.
StartCall ==
    /\ mainPc = "idle"
    /\ m_data = "loaded"
    /\ ~m_equipmentModel.isNull
    /\ startCount < MaxStarts
    /\ startCount' = startCount + 1
    /\ mainPc' = "transform"
    /\ runBase' = Len(m_offMeshCon)
    /\ navRead' = NotRead
    /\ callLog' = <<>>
    /\ UNCHANGED <<m_data, m_equipmentModel, debugFiles, cursor, halfDone,
                   m_nodeLevelMap, numVerts, numTris, m_vertexOffset, m_offMeshCon,
                   tasks, m_navMesh>>
    /\ UNCHANGED exceptNav

\* StartTransform with the thread pool call moved to the top of start().
StartTransform_SpawnsWorker ==
    /\ mainPc = "transform"
    /\ mainPc' = "index"
    /\ halfDone' = [halfDone EXCEPT ![startCount] = @ \cup {"transform"}]
    /\ tasks' = [tasks EXCEPT ![startCount] = SpawnedTask(startCount, tasks)]
    /\ UNCHANGED <<m_data, m_equipmentModel, debugFiles, cursor, startCount, runBase,
                   m_nodeLevelMap, numVerts, numTris, m_vertexOffset, m_offMeshCon,
                   m_navMesh, navRead, callLog>>
    /\ UNCHANGED exceptNav

\* m_transform.initialize(m_data.boundingBox())
StartTransform ==
    /\ mainPc = "transform"
    /\ mainPc' = "index"
    /\ halfDone' = [halfDone EXCEPT ![startCount] = @ \cup {"transform"}]
    /\ UNCHANGED <<m_data, m_equipmentModel, debugFiles, cursor, startCount, runBase,
                   m_nodeLevelMap, numVerts, numTris, m_vertexOffset, m_offMeshCon,
                   tasks, m_navMesh, navRead, callLog>>
    /\ UNCHANGED exceptNav

\* indexNodeLevels(), then the hidden elements are fetched and sorted
StartIndex ==
    /\ mainPc = "index"
    /\ m_nodeLevelMap' = indexNodeLevels(m_nodeLevelMap)
    /\ mainPc' = "process"
    /\ cursor' = 1
    /\ halfDone' = [halfDone EXCEPT ![startCount] = @ \cup {"index"}]
    /\ UNCHANGED <<m_data, m_equipmentModel, debugFiles, startCount, runBase,
                   numVerts, numTris, m_vertexOffset, m_offMeshCon,
                   tasks, m_navMesh, navRead, callLog>>
    /\ UNCHANGED exceptNav

\* the binary_search with the hidden-element test left out
hiddenSkip_Never(call, hidden) == FALSE

\* std::binary_search(hiddenElements...): made for the level map's elements
\* only, the overlay's callback calls processElement directly
hiddenSkip(call, hidden) == ~call.overlay /\ call.elem \in hidden

\* one iteration of the loops over the level map and the overlay's elements
StartProcess ==
    /\ mainPc = "process"
    /\ cursor <= Len(Worklist)
    /\ LET call == Worklist[cursor]
           skip == hiddenSkip(call, m_equipmentModel.hidden)
           nb   == IF skip THEN Buffers
                   ELSE processElement(Buffers, m_nodeLevelMap, call.elem, call.floor)
       IN  /\ numVerts' = numVerts + Len(nb.verts)
           /\ numTris' = numTris + Len(nb.tris)
           /\ m_vertexOffset' = nb.vo
           /\ m_offMeshCon' = nb.off
           /\ callLog' = IF skip THEN callLog ELSE Append(callLog, call)
    /\ cursor' = cursor + 1
    /\ IF cursor = Len(Worklist)
       THEN /\ mainPc' = "debug"
            /\ halfDone' = [halfDone EXCEPT ![startCount] = @ \cup {"process"}]
       ELSE UNCHANGED <<mainPc, halfDone>>
    /\ UNCHANGED <<m_data, m_equipmentModel, debugFiles, startCount, runBase,
                   m_nodeLevelMap, tasks, m_navMesh, navRead>>
    /\ UNCHANGED exceptNav

\* writeGsetFile() and writeObjFile(), when debug output was requested
StartDebug ==
    /\ mainPc = "debug"
    /\ mainPc' = "spawn"
    /\ halfDone' = [halfDone EXCEPT ![startCount] = @ \cup {"debug"}]
    /\ UNCHANGED <<m_data, m_equipmentModel, debugFiles, cursor, startCount, runBase,
                   m_nodeLevelMap, numVerts, numTris, m_vertexOffset, m_offMeshCon,
                   tasks, m_navMesh, navRead, callLog>>
    /\ UNCHANGED exceptNav

\* QThreadPool::globalInstance()->start(...), then start() returns
StartSpawn ==
    /\ mainPc = "spawn"
    /\ mainPc' = "idle"
    /\ cursor' = 0
    /\ tasks' = [tasks EXCEPT ![startCount] = SpawnedTask(startCount, tasks)]
    /\ UNCHANGED <<m_data, m_equipmentModel, debugFiles, startCount, runBase, halfDone,
                   m_nodeLevelMap, numVerts, numTris, m_vertexOffset, m_offMeshCon,
                   m_navMesh, navRead, callLog>>
    /\ UNCHANGED exceptNav

StartStep ==
    StartTransform \/ StartIndex \/ StartProcess \/ StartDebug \/ StartSpawn

\* ---- the lambda run by the thread pool ----
mainUnchanged == <<m_data, m_equipmentModel, debugFiles, mainPc, cursor, startCount,
                   runBase, halfDone, m_nodeLevelMap, numVerts, numTris,
                   m_vertexOffset, m_offMeshCon, callLog>>

\* a pool thread picks the lambda up and enters buildNavMesh
WorkerBegin(k) ==
    /\ tasks[k].pc = "queued"
    /\ tasks' = [tasks EXCEPT ![k].pc = "setup"]
    /\ UNCHANGED <<mainUnchanged, m_navMesh, navRead>>
    /\ UNCHANGED exceptNav

\* a step of buildNavMesh completes and the next one begins
WorkerAdvance(k) ==
    /\ tasks[k].pc \in {"setup", "rasterize", "mesh", "navdata", "init"}
    /\ tasks' = [tasks EXCEPT ![k].pc = NextStage(tasks[k].pc)]
    /\ UNCHANGED <<mainUnchanged, m_navMesh, navRead>>
    /\ UNCHANGED exceptNav

\* a call of the current step fails: buildNavMesh logs and returns early
WorkerFail(k) ==
    /\ \E f \in FailPoints(tasks[k].pc) :
          tasks' = [tasks EXCEPT ![k].pc = "returned", ![k].ok = FALSE]
    /\ UNCHANGED <<mainUnchanged, m_navMesh, navRead>>
    /\ UNCHANGED exceptNav

\* m_navMesh = std::move(resultData), then buildNavMesh returns
WorkerAssign(k) ==
    /\ tasks[k].pc = "assign"
    /\ m_navMesh' = k
    /\ tasks' = [tasks EXCEPT ![k].pc = "returned", ![k].ok = TRUE]
    /\ UNCHANGED <<mainUnchanged, navRead>>
    /\ UNCHANGED exceptNav

\* the lambda runs on after a buildNavMesh that failed only
WorkerEmit_OnSuccessOnly(k) ==
    /\ tasks[k].pc = "returned"
    /\ tasks[k].ok
    /\ tasks' = [tasks EXCEPT ![k].pc = "emitted", ![k].emits = @ + 1]
    /\ UNCHANGED <<mainUnchanged, m_navMesh, navRead>>
    /\ UNCHANGED exceptNav

\* QMetaObject::invokeMethod(this, &NavMeshBuilder::finished, Qt::QueuedConnection)
WorkerEmit(k) ==
    /\ tasks[k].pc = "returned"
    /\ tasks' = [tasks EXCEPT ![k].pc = "emitted", ![k].emits = @ + 1]
    /\ UNCHANGED <<mainUnchanged, m_navMesh, navRead>>
    /\ UNCHANGED exceptNav

WorkerStep(k) ==
    WorkerBegin(k) \/ WorkerAdvance(k) \/ WorkerFail(k) \/ WorkerAssign(k) \/ WorkerEmit(k)

\* the main thread's event loop delivers a queued finished signal
DeliverFinished(k) ==
    /\ mainPc = "idle"
    /\ tasks[k].pc = "emitted"
    /\ tasks' = [tasks EXCEPT ![k].pc = "delivered"]
    /\ navRead' = NotRead
    /\ UNCHANGED <<mainUnchanged, m_navMesh>>
    /\ UNCHANGED exceptNav

\* navMesh() is called: the main thread starts copying m_navMesh
NavMeshCall ==
    /\ mainPc = "idle"
    /\ startCount > 0
    /\ mainPc' = "navMesh"
    /\ UNCHANGED <<m_data, m_equipmentModel, debugFiles, cursor, startCount, runBase,
                   halfDone, m_nodeLevelMap, numVerts, numTris, m_vertexOffset,
                   m_offMeshCon, tasks, m_navMesh, navRead, callLog>>
    /\ UNCHANGED exceptNav

\* navMesh() returns.  A copy that overlaps a worker's assignment of m_navMesh
\* is a data race: the caller may see the value before or after the assignment.
NavMeshReturn ==
    /\ mainPc = "navMesh"
    /\ mainPc' = "idle"
    /\ \E v \in {m_navMesh} \cup {k \in 1..MaxStarts : tasks[k].pc = "assign"} :
          navRead' = [read |-> TRUE, mesh |-> v]
    /\ UNCHANGED <<m_data, m_equipmentModel, debugFiles, cursor, startCount, runBase,
                   halfDone, m_nodeLevelMap, numVerts, numTris, m_vertexOffset,
                   m_offMeshCon, tasks, m_navMesh, callLog>>
    /\ UNCHANGED exceptNav

InitNav ==
    /\ AllUnusedBut("nav")
    /\ NavConstructed

NextNav ==
    \/ SetMapData
    \/ \E hidden \in HiddenSets : SetEquipmentModel(hidden)
    \/ WriteDebugNavMesh
    \/ StartCall
    \/ StartStep
    \/ \E k \in 1..MaxStarts : WorkerStep(k)
    \/ \E k \in 1..MaxStarts : DeliverFinished(k)
    \/ NavMeshCall
    \/ NavMeshReturn

\* The program does not halt while a start() call or a lambda handed to the
\* thread pool has a step left to take.
ProgramStep == StartStep \/ \E k \in 1..MaxStarts : WorkerStep(k)

SpecNav == InitNav /\ [][NextNav]_vars /\ WF_vars(ProgramStep)

(***************************************************************************)
(*      NavMeshBuilderPrivate::processElement, one call at a time          *)
(*                                                                         *)
(* The call is made on an element of the catalogue, for a floor level,     *)
(* with a node level index and buffers as earlier calls may have left      *)
(* them.  A call that reads outside a container has no defined outcome:    *)
(* the process may end, or the call completes with whatever it read.       *)
(***************************************************************************)
FloorInputs == {0, 5, 10}

\* node level indexes indexNodeLevels can leave behind for the nodes 1 and 2
LevelIndexInputs ==
    { [n \in {} |-> 0],
      [n \in {2} |-> 10],
      [n \in {1, 2} |-> IF n = 1 THEN 10 ELSE 20],
      [n \in {1, 2} |-> 10],
      [n \in {2} |-> AmbiguousLevel],
      [n \in {1, 2} |-> IF n = 1 THEN AmbiguousLevel ELSE 10] }

EmptyBuffers == [verts |-> <<>>, tris |-> <<>>, vo |-> 0, off |-> <<>>, ub |-> FALSE]

\* buffers holding the wall quad of an earlier call
UsedBuffers == addWallQuad(EmptyBuffers, NavElementCatalogue[4], 0, 3)

\* what an out-of-range read of a polygon point may yield
GarbagePoints == {<<"node", 1>>, <<"garbage", 0>>}

resolvePoint(p, g) == IF p[1] = "out of range" THEN g ELSE p

resolveOutOfRange(buf, g) ==
    [buf EXCEPT !.off = [i \in 1..Len(buf.off) |->
        [buf.off[i] EXCEPT !.from = <<resolvePoint(@[1], g), @[2]>>,
                           !.to   = <<resolvePoint(@[1], g), @[2]>>]]]

ProcessElementCall ==
    /\ pePc = "ready"
    /\ LET nb == processElement(peBase, peMap, peElem, peFloor)
       IN  /\ ~nb.ub
           /\ peBuf' = nb
    /\ pePc' = "done"
    /\ UNCHANGED <<peElem, peFloor, peMap, peBase>>
    /\ UNCHANGED exceptElem

ProcessElementUndefined ==
    /\ pePc = "ready"
    /\ LET nb == processElement(peBase, peMap, peElem, peFloor)
       IN  /\ nb.ub
           /\ IF extrudesEmptyPath(NavElementCatalogue[peElem])
              \* the loop runs to SIZE_MAX - 1 over an empty vector: it faults
              \* at the first read, or after quads made of what it read
              THEN /\ pePc' = "crashed"
                   /\ peBuf' \in {peBase, garbageWallQuad(nb, peFloor)}
              ELSE \/ pePc' = "crashed" /\ peBuf' = peBase
                   \/ /\ pePc' = "done"
                      /\ \E g \in GarbagePoints : peBuf' = resolveOutOfRange(nb, g)
    /\ UNCHANGED <<peElem, peFloor, peMap, peBase>>
    /\ UNCHANGED exceptElem

InitElem ==
    /\ AllUnusedBut("elem")
    /\ peElem \in 1..Len(NavElementCatalogue)
    /\ peFloor \in FloorInputs
    /\ peMap \in LevelIndexInputs
    /\ peBase \in {EmptyBuffers, UsedBuffers}
    /\ peBuf = peBase
    /\ pePc = "ready"

NextElem == ProcessElementCall \/ ProcessElementUndefined

SpecElem == InitElem /\ [][NextElem]_vars

(***************************************************************************)
(*          NavMeshBuilderPrivate::indexNodeLevels, element by element     *)
(*                                                                         *)
(* The two loops of indexNodeLevels visit the elements listed under each   *)
(* level.  The entries below are visited in any order, which covers every  *)
(* iteration order a level map can have.                                   *)
(***************************************************************************)
IndexEntry(e, level) == [elem |-> e, level |-> level]

\* entries of the level map: the ways 3, 4, 5 and 6, the relation 2 and the
\* node 16 as listed there, and three more single-level ways
IndexEntries ==
    { IndexEntry(3, 10), IndexEntry(6, 5), IndexEntry(4, 0), IndexEntry(5, 10),
      IndexEntry(2, 20), IndexEntry(16, 10), IndexEntry(18, 20),
      IndexEntry(19, 10), IndexEntry(20, 20) }

IndexNodes == {1, 2, 3, 4, 8, 9}

\* one iteration of the inner loop, under the outer loop's level test
IndexVisit(entry) ==
    /\ entry \in ixLeft
    /\ ixLeft' = ixLeft \ {entry}
    /\ ixMap' = IF entry.level = 0 THEN ixMap
                ELSE indexElement(ixMap, entry.elem, entry.level)
    /\ UNCHANGED ixRead
    /\ UNCHANGED exceptIndex

LevelForNodeCall(n) ==
    /\ ixRead' = [node |-> n, recorded |-> n \in DOMAIN ixMap,
                  level |-> levelForNode(ixMap, n)]
    /\ UNCHANGED <<ixMap, ixLeft>>
    /\ UNCHANGED exceptIndex

InitIndex ==
    /\ AllUnusedBut("index")
    /\ ixMap = [n \in {} |-> 0]
    /\ ixLeft = IndexEntries
    /\ ixRead = NoLookup

NextIndex ==
    \/ \E entry \in IndexEntries : IndexVisit(entry)
    \/ \E n \in IndexNodes : LevelForNodeCall(n)

SpecIndex == InitIndex /\ [][NextIndex]_vars

(***************************************************************************)
(*                      indexNodeLevels: properties                        *)
(***************************************************************************)
\* a way with a single-valued level tag, listed under a non-zero full level
OnFullLevel(entry) ==
    LET el == NavElementCatalogue[entry.elem]
    IN  /\ el.type = "Way"
        /\ Len(el.levels) = 1
        /\ entry.level # 0
        /\ entry.level % 10 = 0

\* the levels of the visited full-level ways that refer to node n
FullLevelsOf(n) ==
    {entry.level : entry \in
        {x \in IndexEntries \ ixLeft :
            OnFullLevel(x) /\ n \in Range(NavElementCatalogue[x.elem].nodes)}}

\* C14: at every point of indexNodeLevels a node is recorded iff a visited
\* way with a single-valued level tag on a non-zero full level refers to it;
\* it maps to L when all such ways are on level L and to the ambiguous
\* sentinel when they are on different levels, whatever the order of the
\* visits and whatever is visited later; a node not recorded is looked up
\* as level 0.
C14_NodeLevelIndex ==
    /\ \A n \in IndexNodes :
          LET ls == FullLevelsOf(n)
          IN  /\ n \in DOMAIN ixMap <=> ls # {}
              /\ levelForNode(ixMap, n) =
                    IF ls = {} THEN 0
                    ELSE IF Cardinality(ls) = 1 THEN CHOOSE l \in ls : TRUE
                    ELSE AmbiguousLevel
    /\ (ixRead.node # 0 /\ ~ixRead.recorded) => ixRead.level = 0

(***************************************************************************)
(*                      FloorLevelChangeModel                              *)
(***************************************************************************)
\* setElement: nothing happens when the element is the one already set
SetElement(e) ==
    /\ m_element # e
    /\ m_element' = e
    /\ m_levels' = IF e = NullElement THEN <<>>
                   ELSE levelsOfElement(FlcElementCatalogue[e], m_floorLevelModel,
                            IF m_floorLevelModel = 0 THEN {}
                            ELSE flmLevels[m_floorLevelModel])
    /\ UNCHANGED <<m_currentFloorLevel, m_floorLevelModel, flmLevels>>
    /\ UNCHANGED exceptFlc

SetCurrentFloorLevel(level) ==
    /\ m_currentFloorLevel # level
    /\ m_currentFloorLevel' = level
    /\ UNCHANGED <<m_element, m_levels, m_floorLevelModel, flmLevels>>
    /\ UNCHANGED exceptFlc

\* setFloorLevelModel: the former model is disconnected, the new one connected
SetFloorLevelModel(model) ==
    /\ m_floorLevelModel # model
    /\ m_floorLevelModel' = model
    /\ UNCHANGED <<m_element, m_levels, m_currentFloorLevel, flmLevels>>
    /\ UNCHANGED exceptFlc

\* A FloorLevelModel is reset to other map data.  Its modelAboutToBeReset
\* reaches the lambda only while the model is the attached one.
FloorLevelModelReset(model, rows) ==
    /\ flmLevels' = [flmLevels EXCEPT ![model] = rows]
    /\ IF model = m_floorLevelModel
       THEN m_element' = NullElement /\ m_levels' = <<>>
       ELSE UNCHANGED <<m_element, m_levels>>
    /\ UNCHANGED <<m_currentFloorLevel, m_floorLevelModel>>
    /\ UNCHANGED exceptFlc

InitFlc ==
    /\ AllUnusedBut("flc")
    /\ m_element = NullElement
    /\ m_levels = <<>>
    /\ m_currentFloorLevel = 0
    /\ m_floorLevelModel = 0
    /\ flmLevels \in [FloorLevelModels -> FloorLevelRows]

NextFlc ==
    \/ \E e \in 0..Len(FlcElementCatalogue) : SetElement(e)
    \/ \E level \in CurrentFloorLevels : SetCurrentFloorLevel(level)
    \/ \E model \in FloorLevelModels : SetFloorLevelModel(model)
    \/ \E model \in FloorLevelModels, rows \in FloorLevelRows :
          FloorLevelModelReset(model, rows)

SpecFlc == InitFlc /\ [][NextFlc]_vars

(***************************************************************************)
(*                      FloorLevelChangeModel: properties                  *)
(***************************************************************************)
NoDuplicates(levels) ==
    \A i, j \in 1..Len(levels) : i # j => levels[i] # levels[j]

LevelListInMapLevelOrder ==
    /\ \A i \in 1..(Len(m_levels) - 1) : m_levels[i] > m_levels[i + 1]
    /\ NoDuplicates(m_levels)
    /\ (m_element # NullElement /\ ~isLevelChangeElement(FlcElementCatalogue[m_element]))
          => m_levels = <<>>
    /\ (m_element = 1 /\ m_floorLevelModel = 0) =>
          /\ Range(m_levels) = {-10, 0, 10, 20}
          /\ Len(m_levels) = 4
          /\ hasMultipleLevelChanges(m_levels)

TwoLevelsOneCurrent ==
    Len(m_levels) = 2 /\ m_currentFloorLevel \in Range(m_levels)

\* C18: hasSingleLevelChange() holds iff the level set has exactly two levels
\* one of which is the current floor level, destinationLevel() is then the
\* other level and differs from the current one; in every other case with
\* more than one level hasMultipleLevelChanges() holds and
\* hasSingleLevelChange() does not; the two never hold together.
C18_ShortcutOrList ==
    LET single == hasSingleLevelChange(m_levels, m_currentFloorLevel)
        multi  == hasMultipleLevelChanges(m_levels)
        dest   == destinationLevel(m_levels, m_currentFloorLevel)
    IN  /\ single <=> TwoLevelsOneCurrent
        /\ single => (dest \in Range(m_levels) /\ dest # m_currentFloorLevel)
        /\ (Len(m_levels) > 1 /\ ~TwoLevelsOneCurrent) => (multi /\ ~single)
        /\ ~(single /\ multi)

\* 10 * floor(l / 10) and 10 * ceil(l / 10), by their defining inequalities
FloorTen(l) == CHOOSE m \in -100..100 : m % 10 = 0 /\ m <= l /\ l < m + 10

CeilTen(l) == CHOOSE m \in -100..100 : m % 10 = 0 /\ m - 10 < l /\ l <= m

\* the full levels a parsed level stands for
FullLevelsFor(l) == IF l % 10 = 0 THEN {l} ELSE {FloorTen(l), CeilTen(l)}

\* the levels appendFullFloorLevel accepts while m_floorLevelModel is attached
AcceptedLevels ==
    IF m_floorLevelModel = 0 THEN -100..100 ELSE flmLevels[m_floorLevelModel]

\* the step is setElement(e) for a level-change element e
IsSetLevelChangeElement(e) ==
    /\ e # NullElement /\ m_element # e /\ m_element' = e
    /\ isLevelChangeElement(FlcElementCatalogue[e])

ParsedLevelsOf(e) ==
    Range(LevelParserParse(tagValue2(FlcElementCatalogue[e], "level", "repeat_on")))

\* C23: every level in m_levels is a full level; setElement adds for a full
\* level of the level/repeat_on list the level itself and for a non-full
\* level l never l but 10*floor(l/10) and 10*ceil(l/10), for negative l as
\* well (each as far as an attached floor level model has a row for it).
C23_OnlyFullLevels ==
    /\ [](\A i \in 1..Len(m_levels) : m_levels[i] % 10 = 0)
    /\ [][\A e \in 1..Len(FlcElementCatalogue) :
            IsSetLevelChangeElement(e) =>
                \A l \in ParsedLevelsOf(e) :
                    /\ (FullLevelsFor(l) \cap AcceptedLevels) \subseteq Range(m_levels')
                    /\ l % 10 # 0 => l \notin Range(m_levels')]_vars

\* setElement under an attached floor level model keeps only the model's levels
SetElementWithinModel ==
    (m_floorLevelModel # 0 /\ m_element' # m_element /\ m_element' # NullElement)
        => Range(m_levels') \subseteq flmLevels[m_floorLevelModel]

\* a reset of the attached floor level model clears element and level list
ResetClears ==
    (m_floorLevelModel # 0
         /\ flmLevels'[m_floorLevelModel] # flmLevels[m_floorLevelModel])
        => (m_element' = NullElement /\ m_levels' = <<>>)

\* C24: while a floor level model is attached, a level of the element's tags
\* that the model has no row for is left out and nothing else happens, so
\* the level list is at all times within the model's levels; and when the
\* attached model is about to be reset the element becomes null and the
\* level list empty.
C24_LevelsWithinModel ==
    /\ [](m_floorLevelModel # 0 =>
            Range(m_levels) \subseteq flmLevels[m_floorLevelModel])
    /\ [][SetElementWithinModel /\ ResetClears]_vars

\* level is ten times i (written without the product, which may not fit)
IsTenTimes(level, i) == level % 10 = 0 /\ level \div 10 = i

\* the storeys building:levels / building:min_level name, and the basements
StoreysOf(e) ==
    LET tags == FlcElementCatalogue[e]
        n == toUInt(tagValue(tags, "building:levels"))
        m == toUInt(tagValue2(tags, "building:min_level", "level"))
    IN  IF n > 0 THEN m..(n - 1) ELSE {}

BasementsOf(e) ==
    1..toUInt(tagValue(FlcElementCatalogue[e], "building:levels:underground"))

\* C30: for a level-change element, building:levels = n > 0 with minimum
\* level m adds exactly the levels 10*i for m <= i < n and
\* building:levels:underground = u exactly the levels -10*i for 1 <= i <= u
\* (next to the levels of the level/repeat_on list); the unsigned -i * 10
\* arrives as the negative level -10*i.
C30_BuildingLevelRanges ==
    [][\A e \in 1..Len(FlcElementCatalogue) :
         IsSetLevelChangeElement(e) =>
             /\ m_floorLevelModel = 0 =>
                   /\ \A i \in StoreysOf(e) :
                         \E l \in Range(m_levels') : IsTenTimes(l, i)
                   /\ \A i \in BasementsOf(e) :
                         \E l \in Range(m_levels') : IsTenTimes(l, -i)
             /\ \A l \in Range(m_levels') :
                   \/ \E i \in StoreysOf(e) : IsTenTimes(l, i)
                   \/ \E i \in BasementsOf(e) : IsTenTimes(l, -i)
                   \/ \E p \in ParsedLevelsOf(e) : l \in FullLevelsFor(p)]_vars

(***************************************************************************)
(*                      MapItem                                            *)
(*                                                                         *)
(* The scene controller is given &m_style: it sees whatever MapItem        *)
(* assigns to m_style afterwards.                                          *)
(***************************************************************************)
\* setStylesheetName up to the test against m_styleSheetName, with the
\* recursion for the default style resolved
SetStylesheetName(styleSheet) ==
    LET file  == styleFile(styleSheet)
        style == parsedStyle(file)
    IN  /\ miStyleSheetName # file
        /\ miStyleSheetName' = file
        /\ IF style.error
           THEN \* hasError(): return before compile and setStyleSheet
                /\ miStyle' = style
                /\ miError' = TRUE
                /\ UNCHANGED ctlStyleSet
           ELSE /\ miStyle' = compile(style, miData)
                /\ miError' = FALSE
                /\ ctlStyleSet' = TRUE
        /\ UNCHANGED <<miData, miSgEmpty, miLoading, miNextId, ctlData, miPaint>>
        /\ UNCHANGED exceptMapItem

\* the loader starts loading: isLoadingChanged calls clear()
Clear ==
    /\ ~miLoading
    /\ miLoading' = TRUE
    /\ IF miSgEmpty
       THEN UNCHANGED <<miData, miSgEmpty, miNextId, ctlData>>
       ELSE /\ miNextId < MaxDataSets
            /\ miSgEmpty' = TRUE
            /\ miNextId' = miNextId + 1
            /\ miData' = MapData(miNextId + 1, TRUE)
            /\ ctlData' = miData'
    /\ UNCHANGED <<miStyleSheetName, miStyle, miError, ctlStyleSet, miPaint>>
    /\ UNCHANGED exceptMapItem

\* the loader finishes: isLoadingChanged calls clear(), which returns at
\* once, and done calls loaderDone()
LoaderDone(hasError) ==
    /\ miLoading
    /\ miLoading' = FALSE
    /\ miSgEmpty' = TRUE
    /\ IF hasError
       THEN UNCHANGED <<miData, miStyle, miNextId, ctlData, ctlStyleSet>>
       ELSE /\ miNextId < MaxDataSets
            /\ miNextId' = miNextId + 1
            /\ miData' = MapData(miNextId + 1, FALSE)
            /\ ctlData' = miData'
            /\ miStyle' = compile(miStyle, miData')
            /\ ctlStyleSet' = TRUE
    /\ UNCHANGED <<miStyleSheetName, miError, miPaint>>
    /\ UNCHANGED exceptMapItem

OverlayReset ==
    /\ miStyle' = compile(miStyle, miData)
    /\ UNCHANGED <<miData, miStyleSheetName, miError, miSgEmpty, miLoading, miNextId,
                   ctlData, ctlStyleSet, miPaint>>
    /\ UNCHANGED exceptMapItem

\* paint(): updateScene, then render
Paint ==
    /\ miPaint' = [evaluated |-> evaluates(ctlStyleSet, ctlData),
                   error |-> miStyle.error,
                   compiledFor |-> miStyle.compiledFor, data |-> ctlData.id]
    /\ miSgEmpty' = IF evaluates(ctlStyleSet, ctlData) THEN FALSE ELSE miSgEmpty
    /\ UNCHANGED <<miData, miStyleSheetName, miStyle, miError, miLoading, miNextId,
                   ctlData, ctlStyleSet>>
    /\ UNCHANGED exceptMapItem

\* the state the constructor leaves: m_data and the controller's data are
\* empty, the default style is parsed and, unless that failed, compiled
InitMapItem ==
    /\ AllUnusedBut("mapitem")
    /\ miData = MapData(1, TRUE)
    /\ miNextId = 1
    /\ ctlData = MapData(0, TRUE)
    /\ miSgEmpty = TRUE
    /\ miLoading = FALSE
    /\ miPaint = NoPaint
    /\ miStyleSheetName = "breeze-light"
    /\ \/ /\ miStyle = compile(parsedStyle("breeze-light"), MapData(1, TRUE))
          /\ miError = FALSE
          /\ ctlStyleSet = TRUE
       \/ /\ miStyle = [parsedStyle("breeze-light") EXCEPT !.error = TRUE]
          /\ miError = TRUE
          /\ ctlStyleSet = FALSE

NextMapItem ==
    \/ \E styleSheet \in StyleSheetNames : SetStylesheetName(styleSheet)
    \/ Clear
    \/ \E hasError \in BOOLEAN : LoaderDone(hasError)
    \/ OverlayReset
    \/ Paint

SpecMapItem == InitMapItem /\ [][NextMapItem]_vars

(***************************************************************************)
(*                      MapItem: properties                                *)
(***************************************************************************)
\* C19: whenever paint() has run updateScene and the controller evaluated
\* its style, that style had been compiled, and compiled against the data
\* set the controller held at that time.
C19_StyleCompiledForData ==
    miPaint.evaluated =>
        /\ miPaint.compiledFor # NotCompiled
        /\ miPaint.compiledFor = miPaint.data

(***************************************************************************)
(*                      PainterRenderer::render                            *)
(***************************************************************************)
\* render(): m_view = view, beginRender(), renderBackground(), then the
\* loop over sg.layerOffsets() starts
RenderCall ==
    /\ rPc = "idle" /\ rPainter # NullPainter
    /\ rView' = "view" /\ rDepth' = rDepth + 1
    /\ rPc' = "range" /\ rRange' = 1 /\ rPhase' = 0
    /\ rBatch' = <<>> /\ rPos' = 0 /\ rLog' = <<>>
    /\ UNCHANGED <<rSg, rCache, rPainter, exceptRender>>

\* one layer range: m_renderBatch is cleared and refilled
SelectBatch ==
    /\ rPc = "range" /\ rRange <= Len(layerOffsets(rSg))
    /\ LET range == layerOffsets(rSg)[rRange]
       IN  rBatch' = renderBatchOf(rSg, range.first + 1, range.second)
    /\ rPhase' = 1 /\ rPos' = 0 /\ rPc' = "phase"
    /\ UNCHANGED <<rSg, rRange, rLog, rCache, rView, rPainter, rDepth, exceptRender>>

\* beginPhase(phase) and the start of the loop over m_renderBatch
BeginPhase ==
    /\ rPc = "phase" /\ rPhase <= Len(RenderPhaseList)
    /\ rPos' = 1 /\ rPc' = "items"
    /\ UNCHANGED <<rSg, rRange, rPhase, rBatch, rLog, rCache, rView, rPainter, rDepth, exceptRender>>

\* one item of m_renderBatch in the current phase: skipped or drawn
RenderItem ==
    /\ rPc = "items" /\ rPos <= Len(rBatch)
    /\ LET payload == RenderItemCatalogue[rSg[rBatch[rPos]]]
           phase == RenderPhaseList[rPhase]
       IN  /\ rLog' = IF inRenderPhase(payload, phase)
                      THEN Append(rLog, [item |-> rBatch[rPos], phase |-> phase,
                                         range |-> rRange,
                                         call |-> renderCallOf(payload)])
                      ELSE rLog
           \* renderLabel: save, the bbox cache, the drawing, restore
           /\ rCache' = IF inRenderPhase(payload, phase) /\ payload.kind = "LabelItem"
                        THEN [rCache EXCEPT ![rBatch[rPos]] =
                                 renderLabel(@, rSg[rBatch[rPos]], rPainter)]
                        ELSE rCache
    /\ rPos' = rPos + 1
    /\ UNCHANGED <<rSg, rPc, rRange, rPhase, rBatch, rView, rPainter, rDepth, exceptRender>>

\* the batch is exhausted: next phase
EndPhase ==
    /\ rPc = "items" /\ rPos > Len(rBatch)
    /\ rPhase' = rPhase + 1 /\ rPc' = "phase"
    /\ UNCHANGED <<rSg, rRange, rBatch, rPos, rLog, rCache, rView, rPainter, rDepth, exceptRender>>

\* the phases are exhausted: next layer range
EndRange ==
    /\ rPc = "phase" /\ rPhase > Len(RenderPhaseList)
    /\ rRange' = rRange + 1 /\ rPc' = "range"
    /\ UNCHANGED <<rSg, rPhase, rBatch, rPos, rLog, rCache, rView, rPainter, rDepth, exceptRender>>

\* the ranges are exhausted: renderForeground(), endRender(), m_view = nullptr
EndRender ==
    /\ rPc = "range" /\ rRange > Len(layerOffsets(rSg))
    /\ rDepth' = rDepth - 1 /\ rView' = NullView
    /\ rPc' = "idle"
    /\ UNCHANGED <<rSg, rRange, rPhase, rBatch, rPos, rLog, rCache, rPainter, exceptRender>>

\* setPainter(painter), as MapItem::paint calls it before render()
SetPainter(painter) ==
    /\ rPc = "idle"
    /\ rPainter' = painter
    /\ UNCHANGED <<rSg, rPc, rRange, rPhase, rBatch, rPos, rLog, rCache, rView, rDepth, exceptRender>>

InitRender ==
    /\ AllUnusedBut("render")
    /\ rSg \in RenderSceneGraphs
    /\ rPc = "idle" /\ rRange = 0 /\ rPhase = 0
    /\ rBatch = <<>> /\ rPos = 0 /\ rLog = <<>>
    /\ rCache = [i \in 1..Len(rSg) |-> [hasFineBbox |-> FALSE, bbox |-> coarseBbox(rSg[i])]]
    /\ rView = NullView /\ rPainter = NullPainter /\ rDepth = 0

NextRender ==
    \/ RenderCall
    \/ SelectBatch
    \/ BeginPhase
    \/ RenderItem
    \/ EndPhase
    \/ EndRange
    \/ EndRender
    \/ \E painter \in Painters : SetPainter(painter)

SpecRender == InitRender /\ [][NextRender]_vars

(***************************************************************************)
(*                  PainterRenderer::render: properties                    *)
(***************************************************************************)
PhaseRank(phase) ==
    CASE phase = "FillPhase" -> 1
      [] phase = "CasingPhase" -> 2
      [] phase = "StrokePhase" -> 3
      [] phase = "LabelPhase" -> 4

\* the draw lies in the layer range it was made for
DrawInItsRange(d) ==
    /\ d.range \in 1..Len(layerOffsets(rSg))
    /\ layerOffsets(rSg)[d.range].first < d.item
    /\ d.item <= layerOffsets(rSg)[d.range].second

\* C20: the draw calls of a render() come range by range in the order of
\* the layer-offset index, all draws of one range before any draw of the
\* next; within a range Fill draws come before Casing draws, these before
\* Stroke draws, these before Label draws; within one phase of a range the
\* items come in scene-graph order; and every draw is of an item whose
\* renderPhases contains the phase it is drawn in.
C20_DrawOrder ==
    /\ \A i \in 1..Len(rLog) :
          /\ DrawInItsRange(rLog[i])
          /\ rLog[i].phase \in RenderItemCatalogue[rSg[rLog[i].item]].phases
    /\ \A i, j \in 1..Len(rLog) :
          i < j =>
            /\ rLog[i].range <= rLog[j].range
            /\ rLog[i].range = rLog[j].range =>
                  PhaseRank(rLog[i].phase) <= PhaseRank(rLog[j].phase)
            /\ (rLog[i].range = rLog[j].range /\ rLog[i].phase = rLog[j].phase) =>
                  rLog[i].item <= rLog[j].item

\* a finished render of a polygon and a polyline on one layer and a label on
\* the next: all four phases, two ranges, two items in one phase
C20_Witness ==
    /\ rPc = "idle" /\ rSg = <<1, 2, 5>>
    /\ [i \in 1..Len(rLog) |-> <<rLog[i].range, rLog[i].phase, rLog[i].item>>]
         = <<<<1, "FillPhase", 1>>, <<1, "CasingPhase", 2>>,
             <<1, "StrokePhase", 1>>, <<1, "StrokePhase", 2>>,
             <<2, "LabelPhase", 3>>>>

\* a step of render() leaves the scene graph alone, and changes an item's
\* cached box only by drawing that label for the first time
RenderStepIsPure ==
    /\ rSg' = rSg
    /\ \A i \in 1..Len(rSg) :
          /\ rCache[i].hasFineBbox => rCache'[i] = rCache[i]
          /\ rCache'[i] # rCache[i] =>
                /\ RenderItemCatalogue[rSg[i]].kind = "LabelItem"
                /\ rLog' = Append(rLog, [item |-> i, phase |-> "LabelPhase",
                                         range |-> rRange, call |-> "renderLabel"])
                /\ rCache'[i] = [hasFineBbox |-> TRUE,
                                 bbox |-> fineBbox(rSg[i], rPainter)]

\* C21: render() changes nothing in the scene graph but the label bounding
\* box cache: a label's box is computed when the label is drawn for the
\* first time, hasFineBbox is set with it, and no later draw or render
\* computes or changes it again; when render() has returned m_view is null
\* and the painter has as many saved states as before the call.
C21_RenderPure ==
    /\ [](rPc = "idle" => (rView = NullView /\ rDepth = 0))
    /\ [][RenderStepIsPure]_vars

\* a second render with another painter has drawn a label whose box was
\* computed with the first painter, and the box is still the first one
C21_Witness ==
    /\ rPc = "range" /\ rRange > Len(layerOffsets(rSg))
    /\ rSg = <<1, 2, 5>> /\ rPainter = "printer"
    /\ Len(rLog) = 5 /\ rLog[5].call = "renderLabel" /\ rLog[5].item = 3
    /\ rCache[3] = [hasFineBbox |-> TRUE, bbox |-> fineBbox(5, "screen")]
    /\ rView # NullView /\ rDepth = 1

(***************************************************************************)
(*                      MapCSSCondition::matches                           *)
(***************************************************************************)
Matches ==
    /\ ~cdResult.called
    /\ cdResult' = [called |-> TRUE, value |-> matches(cdCond, cdElem)]
    /\ UNCHANGED <<cdElem, cdCond, exceptCond>>

InitCond ==
    /\ AllUnusedBut("cond")
    /\ cdElem \in {CondElementCatalogue[i] : i \in 1..Len(CondElementCatalogue)}
    /\ cdCond \in Conditions
    /\ cdResult = NotCalled

NextCond == Matches

SpecCond == InitCond /\ [][NextCond]_vars

(***************************************************************************)
(*                  MapCSSCondition::matches: properties                   *)
(***************************************************************************)
carriesKey(elem, key) ==
    \E i \in 1..Len(elem.tags) : elem.tags[i][1] = key

\* C22: a condition on a key the element does not carry does not match,
\* whichever of the operators exists, equal, not-equal it has; and matches()
\* returns a boolean for every element, the null element included.
C22_MissingKeyNeverMatches ==
    cdResult.called =>
        /\ cdResult.value \in BOOLEAN
        /\ ~carriesKey(cdElem, cdCond.key) => ~cdResult.value

(***************************************************************************)
(*                      The builder's arrays                               *)
(***************************************************************************)
\* the calls made so far
ArrayCalls == Len(aVerts) \div 3 + Len(aTris) \div 3 + Len(aOffMeshCon.rads)

AddVertex(p) ==
    /\ ArrayCalls < MaxArrayCalls
    /\ aVerts' = pushVertex(aVerts, p)
    /\ UNCHANGED <<aTris, aTriAreaIds, aOffMeshCon, exceptArrays>>

AddFace(f, areaType) ==
    /\ ArrayCalls < MaxArrayCalls
    /\ LET r == pushFace(aTris, aTriAreaIds, f, areaType)
       IN  aTris' = r.tris /\ aTriAreaIds' = r.areaIds
    /\ UNCHANGED <<aVerts, aOffMeshCon, exceptArrays>>

AddOffMeshConnection(p1, p2, linkDir, areaType) ==
    /\ ArrayCalls < MaxArrayCalls
    /\ aOffMeshCon' = pushOffMeshConnection(aOffMeshCon, p1, p2, linkDir, areaType)
    /\ UNCHANGED <<aVerts, aTris, aTriAreaIds, exceptArrays>>

InitArrays ==
    /\ AllUnusedBut("arrays")
    /\ aVerts = <<>> /\ aTris = <<>> /\ aTriAreaIds = <<>>
    /\ aOffMeshCon = NoOffMeshCon

NextArrays ==
    \/ \E p \in ArrayPoints : AddVertex(p)
    \/ \E f \in ArrayFaces, areaType \in AreaTypes : AddFace(f, areaType)
    \/ \E p1, p2 \in ArrayPoints, linkDir \in LinkDirections :
          AddOffMeshConnection(p1, p2, linkDir, "Escalator")

SpecArrays == InitArrays /\ [][NextArrays]_vars

(***************************************************************************)
(*                  The builder's arrays: properties                       *)
(***************************************************************************)
\* C26: after any sequence of addVertex, addFace and addOffMeshConnection
\* calls the vertex array has a multiple of 3 entries, the index array 3
\* entries per entry of the area id array, the off-mesh end point array 6
\* entries per radius, and radius, flags, area, direction and user id arrays
\* have one entry each per connection.
C26_ArraysInStep ==
    /\ Len(aVerts) % 3 = 0
    /\ Len(aTris) = 3 * Len(aTriAreaIds)
    /\ Len(aOffMeshCon.verts) = 6 * Len(aOffMeshCon.rads)
    /\ Len(aOffMeshCon.flags) = Len(aOffMeshCon.rads)
    /\ Len(aOffMeshCon.areas) = Len(aOffMeshCon.rads)
    /\ Len(aOffMeshCon.dir) = Len(aOffMeshCon.rads)
    /\ Len(aOffMeshCon.userId) = Len(aOffMeshCon.rads)

\* two vertices, a face and a backward link, stored with swapped end points
C26_Witness ==
    /\ Len(aVerts) = 6 /\ aTris = <<0, 1, 2>> /\ aTriAreaIds = <<"Unwalkable">>
    /\ aOffMeshCon.verts = <<1, 0, 1, 0, 0, 0>> /\ aOffMeshCon.dir = <<0>>

(***************************************************************************)
(*                      OSM::intersects                                    *)
(***************************************************************************)
\* both calls on one pair of boxes
Intersects ==
    /\ ~isResult.called
    /\ isResult' = [called |-> TRUE, ab |-> intersects(isA, isB),
                    ba |-> intersects(isB, isA)]
    /\ UNCHANGED <<isA, isB, exceptIsect>>

InitIsect ==
    /\ AllUnusedBut("isect")
    /\ isA \in CoordBoxes /\ isB \in CoordBoxes
    /\ isResult = NoIntersects

NextIsect == Intersects

SpecIsect == InitIsect /\ [][NextIsect]_vars

(***************************************************************************)
(*                      OSM::intersects: properties                        *)
(***************************************************************************)
\* the boxes have a point in common
SharePoint(a, b) ==
    \E lat \in 0..MaxCoord, lon \in 0..MaxCoord :
        /\ a.min[1] <= lat /\ lat <= a.max[1] /\ a.min[2] <= lon /\ lon <= a.max[2]
        /\ b.min[1] <= lat /\ lat <= b.max[1] /\ b.min[2] <= lon /\ lon <= b.max[2]

\* C28: on valid boxes intersects(a, b) is true exactly when the boxes have
\* a point in common, also when one box contains the other, and
\* intersects(a, b) = intersects(b, a).
C28_IntersectsIsOverlap ==
    isResult.called =>
        /\ isResult.ab <=> SharePoint(isA, isB)
        /\ isResult.ab <=> isResult.ba

(***************************************************************************)
(*                      processElement: properties                         *)
(***************************************************************************)
peEl == NavElementCatalogue[peElem]

\* what the call has appended
NewVerts == SubSeq(peBuf.verts, Len(peBase.verts) + 1, Len(peBuf.verts))

NewTris == SubSeq(peBuf.tris, Len(peBase.tris) + 1, Len(peBuf.tris))

NewLinks == SubSeq(peBuf.off, Len(peBase.off) + 1, Len(peBuf.off))

Ended == pePc \in {"done", "crashed"}

LineLinkLayers(el) ==
    {i \in 1..Len(el.layers) : el.layers[i].selector # "" /\ el.layers[i].line}

EscalatorLinks == {i \in 1..Len(NewLinks) : NewLinks[i].area = "Escalator"}

\* the way has exactly two nodes whose indexed levels differ, neither ambiguous
LinksTwoLevels(el, map) ==
    /\ el.type = "Way"
    /\ Len(el.nodes) = 2
    /\ levelForNode(map, el.nodes[1]) # levelForNode(map, el.nodes[2])
    /\ levelForNode(map, el.nodes[1]) # AmbiguousLevel
    /\ levelForNode(map, el.nodes[2]) # AmbiguousLevel

\* C11: a call on an element with one line link layer adds an Escalator
\* connection iff the element is a way of exactly two nodes with different,
\* unambiguous indexed levels; the connection then runs from node 0 at l1 to
\* node 1 at l2 (end points swapped for a backward link) and has direction
\* flag 1 for a bidirectional link, 0 for a forward or backward one.
C11_LineLinkConnection ==
    (Ended /\ Cardinality(LineLinkLayers(peEl)) = 1) =>
        LET layer == peEl.layers[CHOOSE i \in LineLinkLayers(peEl) : TRUE]
            dir   == linkDirection(layer.selector)
            a     == <<<<"node", peEl.nodes[1]>>, levelForNode(peMap, peEl.nodes[1])>>
            b     == <<<<"node", peEl.nodes[2]>>, levelForNode(peMap, peEl.nodes[2])>>
        IN  IF LinksTwoLevels(peEl, peMap)
            THEN /\ Cardinality(EscalatorLinks) = 1
                 /\ \A i \in EscalatorLinks :
                      /\ NewLinks[i].from = (IF dir = "Backward" THEN b ELSE a)
                      /\ NewLinks[i].to = (IF dir = "Backward" THEN a ELSE b)
                      /\ NewLinks[i].dir = (IF dir = "Bidirectional" THEN 1 ELSE 0)
            ELSE EscalatorLinks = {}

WallLayers(el) ==
    {i \in 1..Len(el.layers) : el.layers[i].selector = "" /\ el.layers[i].extrude > 0}

\* the consecutive outer-path pairs neither of whose nodes is a door
NonDoorPairs(el) ==
    {i \in 1..(Len(el.outer) - 1) :
        ~isDoor(el, el.outer[i]) /\ ~isDoor(el, el.outer[i + 1])}

UnwalkableTris == {t \in 1..Len(NewTris) : NewTris[t].area = "Unwalkable"}

\* C12: a call on an element with one extrusion layer of positive extrude and
\* a non-empty outer path adds, for every consecutive pair of outer-path
\* nodes neither of which is a door, exactly four vertices (both nodes at
\* floorLevel and at floorLevel + 10) and two Unwalkable triangles over them,
\* in path order, and nothing for a pair with a door node; the pairs next to
\* a skipped pair still get their wall.
C12_WallPerSegment ==
    (pePc = "done" /\ Cardinality(WallLayers(peEl)) = 1 /\ peEl.outer # <<>>) =>
        LET pairs == NonDoorPairs(peEl)
            q     == Cardinality(pairs)
            v0    == Len(peBuf.verts) - 4 * q
            t0    == Len(peBuf.tris) - 2 * q
            o0    == peBuf.vo - 4 * q
        IN  /\ Cardinality(UnwalkableTris) = 2 * q
            /\ v0 >= Len(peBase.verts)
            /\ t0 >= Len(peBase.tris)
            /\ \A i \in pairs :
                 LET k  == Cardinality({j \in pairs : j < i})
                     p1 == <<"node", peEl.outer[i]>>
                     p2 == <<"node", peEl.outer[i + 1]>>
                     o  == o0 + 4 * k
                 IN  /\ peBuf.verts[v0 + 4 * k + 1] = [at |-> p1, y |-> peFloor]
                     /\ peBuf.verts[v0 + 4 * k + 2] = [at |-> p2, y |-> peFloor]
                     /\ peBuf.verts[v0 + 4 * k + 3] = [at |-> p1, y |-> peFloor + 10]
                     /\ peBuf.verts[v0 + 4 * k + 4] = [at |-> p2, y |-> peFloor + 10]
                     /\ peBuf.tris[t0 + 2 * k + 1] =
                            [i |-> o, j |-> o + 1, k |-> o + 2, area |-> "Unwalkable"]
                     /\ peBuf.tris[t0 + 2 * k + 2] =
                            [i |-> o + 1, j |-> o + 3, k |-> o + 2, area |-> "Unwalkable"]

\* a wall with two door corners has been extruded: the segments at the doors
\* are left out and the segment between them is built
C12_Witness ==
    /\ pePc = "done"
    /\ peElem = 13
    /\ peFloor = 10
    /\ NonDoorPairs(peEl) = {3}
    /\ Cardinality(UnwalkableTris) = 2
    /\ Len(NewVerts) = 4
    /\ NewVerts[4] = [at |-> <<"node", 3>>, y |-> 20]

StrokeVerts == {v \in 1..Len(NewVerts) : NewVerts[v].at[1] = "stroke"}

\* C13: every stroke vertex a call emits lies at the level of the end point it
\* is nearer to when the element is a way of exactly two nodes whose indexed
\* levels differ and are both unambiguous, and at the floor level being
\* processed in every other case.
C13_StrokeVertexLevels ==
    pePc = "done" =>
        \A v \in StrokeVerts :
            LET near == peEl.stroke[NewVerts[v].at[2]]
            IN  NewVerts[v].y =
                    IF LinksTwoLevels(peEl, peMap)
                    THEN levelForNode(peMap, peEl.nodes[near])
                    ELSE peFloor

IsGeometryLayer(res) == res.selector = ""

IsLinkLayer(res) == res.selector # ""

\* the buffers the call would leave with only its geometry layers evaluated
AfterGeometryLayers ==
    processLayers(peBase, peMap, peElem, peFloor,
                  SelectSeq(peEl.layers, IsGeometryLayer))

\* the buffers the call would leave with only its link layers evaluated
AfterLinkLayers ==
    processLayers(peBase, peMap, peElem, peFloor, SelectSeq(peEl.layers, IsLinkLayer))

\* level, direction flag and area type of a connection
LinkShape(con) ==
    [from |-> con.from[2], to |-> con.to[2], dir |-> con.dir, area |-> con.area]

\* C16: the vertices, triangles and vertex offset a call leaves are those of
\* its layers without a layer selector alone, and its off-mesh connections
\* those of its layers with a selector alone: a link layer adds no vertex or
\* triangle, a geometry layer no connection.  The Escalator connection of a
\* layer named link_forward runs from l1 to l2 one way, that of link_backward
\* from l2 to l1 one way, that of any other named layer from l1 to l2 both
\* ways.
C16_LayerDispatch ==
    pePc = "done" =>
        /\ peBuf.verts = AfterGeometryLayers.verts
        /\ peBuf.tris = AfterGeometryLayers.tris
        /\ peBuf.vo = AfterGeometryLayers.vo
        /\ Len(peBuf.off) = Len(AfterLinkLayers.off)
        /\ \A i \in 1..Len(peBuf.off) :
              LinkShape(peBuf.off[i]) = LinkShape(AfterLinkLayers.off[i])
        /\ (\A i \in 1..Len(peEl.layers) : IsGeometryLayer(peEl.layers[i])) =>
              NewLinks = <<>>
        /\ (\A i \in 1..Len(peEl.layers) : IsLinkLayer(peEl.layers[i])) =>
              NewVerts = <<>> /\ NewTris = <<>> /\ peBuf.vo = peBase.vo
        /\ Cardinality(LineLinkLayers(peEl)) = 1 =>
              LET name == peEl.layers[CHOOSE i \in LineLinkLayers(peEl) : TRUE].selector
                  l1   == levelForNode(peMap, peEl.nodes[1])
                  l2   == levelForNode(peMap, peEl.nodes[2])
              IN  \A i \in EscalatorLinks :
                      LinkShape(NewLinks[i]) =
                          IF name = "link_forward"
                          THEN [from |-> l1, to |-> l2, dir |-> 0, area |-> "Escalator"]
                          ELSE IF name = "link_backward"
                          THEN [from |-> l2, to |-> l1, dir |-> 0, area |-> "Escalator"]
                          ELSE [from |-> l1, to |-> l2, dir |-> 1, area |-> "Escalator"]

\* a way with a geometry layer and a link_forward layer has been processed:
\* four stroke vertices from the one, a one-way connection from the other
C16_Witness ==
    /\ pePc = "done"
    /\ peElem = 5
    /\ Len(NewVerts) = 4
    /\ Len(NewLinks) = 1
    /\ LinkShape(NewLinks[1]) = [from |-> 10, to |-> 20, dir |-> 0, area |-> "Escalator"]

\* the vertex indices of a face
FaceIndices(t) == {t.i, t.j, t.k}

\* C25: when a processElement call has returned, whatever of area
\* triangulation, line stroke and extrusion its geometry layers ran,
\* m_vertexOffset is the number of vertices stored, the faces stored before
\* the call are untouched, and every index of a face added by the call is
\* the index of a vertex this call has added: at least the vertex count
\* before the call (so never a vertex of an earlier element, never negative)
\* and below the vertex count after it.
C25_VertexOffsetInStep ==
    pePc = "done" =>
        /\ peBuf.vo = Len(peBuf.verts)
        /\ SubSeq(peBuf.tris, 1, Len(peBase.tris)) = peBase.tris
        /\ \A n \in 1..Len(NewTris) : \A index \in FaceIndices(NewTris[n]) :
              Len(peBase.verts) <= index /\ index < Len(peBuf.verts)
        /\ \A n \in 1..Len(peBuf.tris) : \A index \in FaceIndices(peBuf.tris[n]) :
              0 <= index /\ index < Len(peBuf.verts)

\* an element that is filled, stroked and extruded, after an earlier wall
C25_Witness ==
    /\ pePc = "done" /\ peElem = 14 /\ peBase = UsedBuffers
    /\ Len(NewVerts) = 23 /\ Len(NewTris) = 13
    /\ peBuf.vo = 27

\* C27: a call that extrudes an element whose outer path is empty returns
\* at once, has added no vertex and no face, and has read no position
\* outside the outer path.
C27_EmptyPathExtrusion ==
    (Ended /\ extrudesEmptyPath(peEl)) =>
        /\ pePc = "done"
        /\ NewVerts = <<>> /\ NewTris = <<>>

(***************************************************************************)
(*                      NavMeshBuilder: properties                         *)
(***************************************************************************)
\* C6: for every start() call, the lambda running buildNavMesh exists only
\* after that call's transform initialisation, node-level indexing, element
\* processing and debug output have all completed; and finished is queued by
\* a lambda only from the position where its buildNavMesh has returned.
C6_StartOrdering ==
    /\ [](\A k \in 1..MaxStarts :
            tasks[k].pc # "none" => halfDone[k] = PhasesOfStart)
    /\ [][\A k \in 1..MaxStarts :
            tasks'[k].emits # tasks[k].emits => tasks[k].pc = "returned"]_vars

\* a lambda has queued finished after a start() that wrote debug files and
\* added geometry and links
C6_Witness ==
    \E k \in 1..MaxStarts :
        /\ tasks[k].pc = "emitted"
        /\ halfDone[k] = PhasesOfStart
        /\ debugFiles
        /\ numTris > 0 /\ Len(m_offMeshCon) > 0

\* C7: every start() call is eventually followed by one queued emission of
\* finished, and never by a second one, whether buildNavMesh ran to its end
\* or returned early from a failing stage.
C7_FinishedExactlyOnce ==
    /\ [](\A k \in 1..MaxStarts : tasks[k].emits <= 1)
    /\ \A k \in 1..MaxStarts : (startCount >= k) ~> (tasks[k].emits = 1)

\* one build failed, another succeeded, and each has queued finished once
C7_Witness ==
    \E i, j \in 1..MaxStarts :
        /\ tasks[i].emits = 1 /\ ~tasks[i].ok /\ tasks[i].pc = "emitted"
        /\ tasks[j].emits = 1 /\ tasks[j].ok

\* C8: when the latest build failed, ran while no other build was running and
\* its finished has been delivered, navMesh() called afterwards returns no
\* navmesh, whatever happened in earlier start() calls.
C8_FailedBuildYieldsNoNavMesh ==
    (/\ startCount > 0
     /\ tasks[startCount].pc = "delivered"
     /\ tasks[startCount].alone
     /\ ~tasks[startCount].ok
     /\ navRead.read)
    => navRead.mesh = NullNavMesh

\* C9: while a lambda is inside a step of buildNavMesh that reads or writes the
\* vertex, triangle, area-id, off-mesh or result navmesh data, the main thread
\* is not inside an operation that reads or writes the same data.
OwnedBuffers == {"m_verts", "m_tris", "m_triAreaIds", "m_offMeshCon", "m_navMesh"}

MainAccessNow ==
    IF mainPc = "debug" /\ ~debugFiles THEN {} ELSE MainAccess(mainPc)

C9_WorkerOwnsBuffers ==
    \A k \in 1..MaxStarts :
        \A w \in WorkerAccess(tasks[k].pc) :
            \A m \in MainAccessNow :
                w[1] \in OwnedBuffers => w[1] # m[1]

\* C10: when a start() run has processed all levels, every element it passed
\* to processElement that matches an area link rule has added, in this run,
\* n-1 connections for its n > 1 levels (none for n <= 1), each of them
\* bidirectional, of area type Elevator and between consecutive levels.
HasAreaLink(e) ==
    \E i \in 1..Len(NavElementCatalogue[e].layers) :
        LET res == NavElementCatalogue[e].layers[i]
        IN  res.selector # "" /\ res.area

ProcessedElements ==
    {Worklist[i].elem : i \in {j \in 1..Len(Worklist) :
        Worklist[j].overlay \/ Worklist[j].elem \notin m_equipmentModel.hidden}}

LinksOfRun(e) ==
    {i \in (runBase + 1)..Len(m_offMeshCon) : m_offMeshCon[i].from[1] = <<"center", e>>}

C10_ElevatorLinksPerRun ==
    (startCount > 0 /\ "process" \in halfDone[startCount]) =>
        \A e \in {x \in ProcessedElements : HasAreaLink(x)} :
            LET levels == NavElementCatalogue[e].levels
                n == Len(levels)
            IN  /\ Cardinality(LinksOfRun(e)) = IF n > 1 THEN n - 1 ELSE 0
                /\ \A i \in LinksOfRun(e) :
                     /\ m_offMeshCon[i].dir = 1
                     /\ m_offMeshCon[i].area = "Elevator"
                     /\ \E p \in 1..(n - 1) :
                          /\ m_offMeshCon[i].from[2] = levels[p]
                          /\ m_offMeshCon[i].to[2] = levels[p + 1]

\* the loops of the current start() have run to their end
ProcessDone == startCount > 0 /\ "process" \in halfDone[startCount]

CallsOf(e, level) ==
    {i \in 1..Len(callLog) :
        callLog[i] = [elem |-> e, floor |-> level, overlay |-> FALSE]}

HitCands == itemsAt(hitPos, sgItems, viewPan)

\* the items of the scene that pass the phase, bounding-box and geometry
\* tests at the last hit position, stated on the item data
HitPassing ==
    {i \in Range(sgItems) :
        LET it == ItemCatalogue[i]
            p == mapScreenToScene(hitPos, viewPan)
        IN  /\ ~it.noPhase
            /\ rectContains(it.bbox, p)
            /\ p \in it.shape
            /\ (it.payload = "Polyline" => it.pathSize >= 2)}

HitOpaque == {c \in Range(HitCands) : itemFillAlpha(c) >= AlphaThreshold}

HitMinArea == Min({bboxArea(c) : c \in Range(HitCands)})

C2_HitTestDeterministic ==
    (hitPc = "done" /\ hitPrev # <<>>) =>
        (hitPrev.pos = hitPos => hitPrev.res = hitResult)

\* C3: itemAt returns nullptr (and elementAt the null element) when no item
\* of the scene passes the tests, and the single passing item when there is
\* exactly one, whatever its fill alpha.
C3_NoneOrSingleCandidate ==
    hitPc = "done" =>
        /\ (HitPassing = {} => hitResult = NullItem /\ hitElement = NullElement)
        /\ \A c \in HitPassing :
              HitPassing = {c} =>
                  hitResult = c /\ hitElement = ItemCatalogue[c].elem

\* C3 witness: a scene of several items, exactly one of which passes the
\* tests; it is transparent and it is returned.
C3_Witness ==
    /\ hitPc = "done"
    /\ Len(sgItems) > 1
    /\ Cardinality(HitPassing) = 1
    /\ \A c \in HitPassing : itemFillAlpha(c) < AlphaThreshold /\ hitResult = c

(***************************************************************************)
(*                      outerPath: properties                              *)
(***************************************************************************)
\* the node ids of a way that the data set resolves, in order
Resolved(ids) == SelectSeq(ids, LAMBDA n : n \in dsNodes)

IsPrefix(a, b) == Len(a) <= Len(b) /\ SubSeq(b, 1, Len(a)) = a

DropPrefix(a, b) == SubSeq(b, Len(a) + 1, Len(b))

\* the ways the relation contributes: its outer members that are non-empty
\* ways of the data set, stated on the member data
OuterWays ==
    LET idx == {i \in DOMAIN relMembers :
                   /\ MemberCatalogue[relMembers[i]].role = "outer"
                   /\ MemberCatalogue[relMembers[i]].id \in WayIds
                   /\ Len(WayCatalogue[MemberCatalogue[relMembers[i]].id]) > 0}
    IN  {MemberCatalogue[relMembers[i]].id : i \in idx}

\* rest is a stitching of exactly the ways in remaining: sub-loops that start
\* with a way taken forward and go on with a way that starts at the current
\* end node (forward) or ends there (reversed), until the loop is closed or
\* no remaining way touches the end node.  last = NoId between sub-loops.
RECURSIVE Stitched(_, _, _, _)
Stitched(rest, remaining, start, last) ==
    IF last = NoId
    THEN \/ rest = <<>> /\ remaining = {}
         \/ \E w \in remaining :
               LET ids == WayCatalogue[w]
               IN  /\ IsPrefix(Resolved(ids), rest)
                   /\ Stitched(DropPrefix(Resolved(ids), rest), remaining \ {w},
                               ids[1], ids[Len(ids)])
    ELSE \/ \E w \in remaining :
               LET ids == WayCatalogue[w]
               IN  \/ /\ ids[1] = last
                      /\ IsPrefix(Resolved(ids), rest)
                      /\ Stitched(DropPrefix(Resolved(ids), rest), remaining \ {w},
                                  start, ids[Len(ids)])
                   \/ /\ ids[Len(ids)] = last
                      /\ IsPrefix(Resolved(Reverse(ids)), rest)
                      /\ Stitched(DropPrefix(Resolved(Reverse(ids)), rest),
                                  remaining \ {w}, start, ids[1])
         \/ /\ \/ last = start
               \/ \A w \in remaining :
                     /\ WayCatalogue[w][1] # last
                     /\ WayCatalogue[w][Len(WayCatalogue[w])] # last
            /\ Stitched(rest, remaining, NoId, NoId)

\* the sequence is a concatenation of closed loops of at least two entries,
\* each starting and ending at the same node id
RECURSIVE IsLoopConcat(_)
IsLoopConcat(seq) ==
    \/ seq = <<>>
    \/ \E k \in 2..Len(seq) :
          /\ seq[1] = seq[k]
          /\ IsLoopConcat(SubSeq(seq, k + 1, Len(seq)))

\* number of way ends (first and last node of each way) at node n
EndsAt(ws, n) ==
    Cardinality({w \in ws : WayCatalogue[w][1] = n})
    + Cardinality({w \in ws : WayCatalogue[w][Len(WayCatalogue[w])] = n})

\* the outer ways form closed rings: every node of theirs is in the data
\* set, every way has two nodes or more, and every node at which a way ends
\* is the end of exactly two way ends
FormClosedRings(ws) ==
    /\ \A w \in ws : Len(WayCatalogue[w]) >= 2 /\ Range(WayCatalogue[w]) \subseteq dsNodes
    /\ \A n \in NodeIds : EndsAt(ws, n) \in {0, 2}

OuterPathOfMultipolygonDone ==
    opPc = "done" /\ opElem.type = "Relation" /\ relType = "multipolygon"

\* C4, the result: when outerPath of a multipolygon relation returns, no
\* collected way is left unused, the result is a stitching of exactly the
\* resolvable non-empty outer member ways, each used once (forward, or
\* reversed when matched at its last node), and if the outer ways form
\* closed rings the result is a concatenation of closed loops.
C4_StitchResult ==
    OuterPathOfMultipolygonDone =>
        /\ opWays = <<>>
        /\ Stitched(opNodes, OuterWays, NoId, NoId)
        /\ (FormClosedRings(OuterWays) => IsLoopConcat(opNodes))

\* C4: outerPath of a multipolygon relation terminates for every member
\* order and way direction, and its result is as C4_StitchResult states.
C4_OuterPathStitches ==
    /\ [](C4_StitchResult)
    /\ (opPc \in {"loop", "next", "erase"}) ~> (opPc = "done")

\* C4 witness: a ring made of three segments, one of them drawn backwards,
\* has been stitched into one closed loop.
C4_Witness ==
    /\ OuterPathOfMultipolygonDone
    /\ OuterWays = {3, 5, 6}
    /\ dsNodes = NodeIds
    /\ Len(opNodes) = 6
    /\ opNodes[1] = opNodes[6]

\* the bounding box of a set of nodes
BboxOfNodes(ns) ==
    IF ns = {} THEN InvalidBbox
    ELSE [min |-> <<Min({NodeCoord[n][1] : n \in ns}), Min({NodeCoord[n][2] : n \in ns})>>,
          max |-> <<-Min({-NodeCoord[n][1] : n \in ns}), -Min({-NodeCoord[n][2] : n \in ns})>>]

\* C5: node ids of a way that the data set does not hold are skipped:
\* outerPath of the way is the subsequence of its node ids that are in the
\* data set, and recomputeBoundingBox sets the way's bounding box to the
\* box around the nodes of the way that are in the data set.
C5_MissingNodesSkipped ==
    opElem.type = "Way" =>
        LET ids == WayCatalogue[opElem.id]
            kept == {i \in DOMAIN ids : ids[i] \in dsNodes}
        IN  /\ opPc = "done" =>
                /\ Range(opNodes) \subseteq dsNodes
                /\ Len(opNodes) = Cardinality(kept)
                /\ \A i \in kept :
                      opNodes[Cardinality({j \in kept : j <= i})] = ids[i]
            /\ bboxDone => bboxValue = BboxOfNodes(Range(ids) \cap dsNodes)

\* C5 witness: a way with a node missing from the data set and two nodes
\* present; outerPath and recomputeBoundingBox have both run on it.
C5_Witness ==
    /\ opElem.type = "Way"
    /\ opPc = "done"
    /\ bboxDone
    /\ Len(opNodes) = 2
    /\ Len(WayCatalogue[opElem.id]) = 3
    /\ bboxIsValid(bboxValue)

(***************************************************************************)
(*                   Element::recomputeBoundingBox                         *)
(***************************************************************************)
membersOf(relId) == BboxDataSets[rbData][relId]

\* the call on the element: nothing for a node or the null element, the
\* accumulation for a way, and for a relation the reset of its box before
\* the walk over its members
RecomputeElement(elem) ==
    /\ rbPc = "idle"
    /\ rbRoot' = elem
    /\ CASE elem.type \in {"Null", "Node"} ->
               /\ rbPc' = "done"
               /\ UNCHANGED <<rbStack, rbRelBox, rbWayBox>>
         [] elem.type = "Way" ->
               /\ rbWayBox' = recomputeWayBox(rbWayBox, elem.id)
               /\ rbPc' = "done"
               /\ UNCHANGED <<rbStack, rbRelBox>>
         [] elem.type = "Relation" ->
               /\ rbRelBox' = [rbRelBox EXCEPT ![elem.id] = InvalidBbox]
               /\ rbStack' = <<[rel |-> elem.id, next |-> 1]>>
               /\ rbPc' = "running"
               /\ UNCHANGED rbWayBox
    /\ UNCHANGED <<rbData, exceptBbox>>

\* for_each_member reaches a member that is not a resolved relation: the
\* lambda runs on a resolved node or way, and the loop moves on
VisitMember ==
    /\ rbPc = "running"
    /\ LET top == rbStack[Len(rbStack)]
           mems == membersOf(top.rel)
       IN  /\ top.next <= Len(mems)
           /\ LET mem == mems[top.next]
                  wayBox == IF mem.type = "Way" /\ memberResolves(mem)
                            THEN recomputeWayBox(rbWayBox, mem.id)
                            ELSE rbWayBox
              IN  /\ ~(mem.type = "Relation" /\ memberResolves(mem))
                  /\ rbWayBox' = wayBox
                  /\ rbRelBox' =
                        IF memberResolves(mem)
                        THEN [rbRelBox EXCEPT ![top.rel] =
                                 unite(rbRelBox[top.rel], boundingBox(mem, rbRelBox, wayBox))]
                        ELSE rbRelBox
                  /\ rbStack' = [rbStack EXCEPT ![Len(rbStack)].next = top.next + 1]
    /\ UNCHANGED <<rbData, rbRoot, rbPc, exceptBbox>>

\* the lambda calls recomputeBoundingBox on a resolved member relation: its
\* box is reset and the walk over its members opens on top of the caller's
EnterMemberRelation ==
    /\ rbPc = "running"
    /\ Len(rbStack) < MaxStackDepth
    /\ LET top == rbStack[Len(rbStack)]
           mems == membersOf(top.rel)
       IN  /\ top.next <= Len(mems)
           /\ mems[top.next].type = "Relation" /\ memberResolves(mems[top.next])
           /\ rbRelBox' = [rbRelBox EXCEPT ![mems[top.next].id] = InvalidBbox]
           /\ rbStack' = Append(rbStack, [rel |-> mems[top.next].id, next |-> 1])
    /\ UNCHANGED <<rbData, rbRoot, rbWayBox, rbPc, exceptBbox>>

\* the same call with no room left on the stack
StackOverflow ==
    /\ rbPc = "running"
    /\ Len(rbStack) = MaxStackDepth
    /\ LET top == rbStack[Len(rbStack)]
           mems == membersOf(top.rel)
       IN  /\ top.next <= Len(mems)
           /\ mems[top.next].type = "Relation" /\ memberResolves(mems[top.next])
    /\ rbPc' = "overflow"
    /\ UNCHANGED <<rbData, rbRoot, rbStack, rbRelBox, rbWayBox, exceptBbox>>

\* the walk over the members of the innermost relation ends: the caller
\* unites its box with the member's, or the outermost call returns
ReturnFromRelation ==
    /\ rbPc = "running"
    /\ LET d == Len(rbStack)
           top == rbStack[d]
       IN  /\ top.next > Len(membersOf(top.rel))
           /\ IF d = 1
              THEN /\ rbStack' = <<>>
                   /\ rbPc' = "done"
                   /\ UNCHANGED rbRelBox
              ELSE /\ rbRelBox' = [rbRelBox EXCEPT ![rbStack[d - 1].rel] =
                                      unite(rbRelBox[rbStack[d - 1].rel], rbRelBox[top.rel])]
                   /\ rbStack' = [i \in 1..(d - 1) |->
                                     IF i = d - 1
                                     THEN [rbStack[i] EXCEPT !.next = rbStack[i].next + 1]
                                     ELSE rbStack[i]]
                   /\ UNCHANGED rbPc
    /\ UNCHANGED <<rbData, rbRoot, rbWayBox, exceptBbox>>

\* the caller goes on to the next call
NextCall ==
    /\ rbPc = "done"
    /\ rbPc' = "idle"
    /\ UNCHANGED <<rbData, rbRoot, rbStack, rbRelBox, rbWayBox, exceptBbox>>

InitBbox ==
    /\ AllUnusedBut("bbox")
    /\ rbData \in DOMAIN BboxDataSets
    /\ rbRoot = [type |-> "Null", id |-> NoId]
    /\ rbStack = <<>>
    /\ rbRelBox = [r \in RelationIds |-> StaleBox]
    /\ rbWayBox = [w \in WayIds |-> StaleBox]
    /\ rbPc = "idle"

NextBbox ==
    \/ \E elem \in BboxRoots : RecomputeElement(elem)
    \/ VisitMember
    \/ EnterMemberRelation
    \/ StackOverflow
    \/ ReturnFromRelation
    \/ NextCall

SpecBbox == InitBbox /\ [][NextBbox]_vars

(***************************************************************************)
(*             Element::recomputeBoundingBox: properties                   *)
(***************************************************************************)
\* the relations reached from the relation through resolved relation members
RECURSIVE reachedRelations(_, _)
reachedRelations(d, rels) ==
    LET more == rels \cup {m.id : m \in UNION {Range(BboxDataSets[d][r]) : r \in rels}
                                  \cap {R(id) : id \in RelationIds}}
    IN  IF more = rels THEN rels ELSE reachedRelations(d, more)

\* the resolved nodes under the relation: its node members and the nodes of
\* its way members, at any depth
nodesUnder(d, relId) ==
    LET mems == UNION {Range(BboxDataSets[d][r]) : r \in reachedRelations(d, {relId})}
    IN  {m.id : m \in {x \in mems : x.type = "Node" /\ memberResolves(x)}}
        \cup (UNION {Range(WayCatalogue[m.id]) :
                      m \in {x \in mems : x.type = "Way" /\ memberResolves(x)}}
              \cap NodeIds)

\* a step of the call on a node or the null element changes no box
NodeCallChangesNothing ==
    (rbPc = "idle" /\ rbPc' = "done" /\ rbRoot'.type \in {"Null", "Node"})
        => UNCHANGED <<rbRelBox, rbWayBox>>

\* C29: recomputeBoundingBox returns on every data set, also when a relation
\* is a member of itself directly or through other relations; a returned
\* call on a relation leaves as its box the union of the boxes of all its
\* resolved members at any depth; a call on a node or the null element
\* changes nothing.
C29_RecomputeTerminates ==
    /\ [](rbPc # "overflow")
    /\ []((rbPc = "done" /\ rbRoot.type = "Relation") =>
              rbRelBox[rbRoot.id] = BboxOfNodes(nodesUnder(rbData, rbRoot.id)))
    /\ [][NodeCallChangesNothing]_vars

=============================================================================
